---- MODULE Spec2Model ----
(***************************************************************************)
(* Boot image tools: unpack / pack / repack of Rockchip KRNL and Android   *)
(* boot images, and the cpio archive codec (tools/utils/cpiofile.py).      *)
(*                                                                         *)
(* Each part of the tool chain has its own state record and its own        *)
(* specification; a specification leaves the records of the other parts    *)
(* untouched.                                                              *)
(*   rk  : rkcrc32 reading a file in 8192-byte reads                       *)
(*   kp  : pack_rockchip_krnl_bootimg writing and padding a KRNL image     *)
(*   cw  : a CpioFile opened for writing (addfile, close)                  *)
(*   pk  : pack merging the attribute tables over the work tree            *)
(*   det : compression detection on the first block of a stream            *)
(*   up  : unpack followed by pack of one image in one work directory      *)
(*   rp  : repack: unpack, patches, replacement files, pack                *)
(*   cr  : a CpioFile opened for reading (next, iterators, getmembers)     *)
(*   cl  : open and close of an archive on a name or a supplied stream     *)
(*   hd  : one member from live metadata to its header and back            *)
(*   ex  : extractall of an archive of directories into a work tree        *)
(*   rt  : an archive file written, appended to and read back, byte by byte*)
(*   xt  : extractall on an archive read while it is extracted             *)
(*   px  : _CMPProxy.read, one step per turn of its loop                   *)
(*   sm  : _Stream in read mode over _StreamProxy                          *)
(***************************************************************************)
EXTENDS Integers, Sequences, FiniteSets, TLC

VARIABLES rk, kp, cw, pk, det, up, rp, cr, cl, hd, ex, rt, xt, px, sm

vars == <<rk, kp, cw, pk, det, up, rp, cr, cl, hd, ex, rt, xt, px, sm>>
OtherThanRk == <<kp, cw, pk, det, up, rp, cr, cl, hd, ex, rt, xt, px, sm>>
OtherThanKp == <<rk, cw, pk, det, up, rp, cr, cl, hd, ex, rt, xt, px, sm>>
OtherThanCw == <<rk, kp, pk, det, up, rp, cr, cl, hd, ex, rt, xt, px, sm>>
OtherThanPk == <<rk, kp, cw, det, up, rp, cr, cl, hd, ex, rt, xt, px, sm>>
OtherThanDet == <<rk, kp, cw, pk, up, rp, cr, cl, hd, ex, rt, xt, px, sm>>
OtherThanUp == <<rk, kp, cw, pk, det, rp, cr, cl, hd, ex, rt, xt, px, sm>>
OtherThanRp == <<rk, kp, cw, pk, det, up, cr, cl, hd, ex, rt, xt, px, sm>>
OtherThanCr == <<rk, kp, cw, pk, det, up, rp, cl, hd, ex, rt, xt, px, sm>>
OtherThanCl == <<rk, kp, cw, pk, det, up, rp, cr, hd, ex, rt, xt, px, sm>>
OtherThanHd == <<rk, kp, cw, pk, det, up, rp, cr, cl, ex, rt, xt, px, sm>>
OtherThanEx == <<rk, kp, cw, pk, det, up, rp, cr, cl, hd, rt, xt, px, sm>>
OtherThanRt == <<rk, kp, cw, pk, det, up, rp, cr, cl, hd, ex, xt, px, sm>>
OtherThanXt == <<rk, kp, cw, pk, det, up, rp, cr, cl, hd, ex, rt, px, sm>>
OtherThanPx == <<rk, kp, cw, pk, det, up, rp, cr, cl, hd, ex, rt, xt, sm>>
OtherThanSm == <<rk, kp, cw, pk, det, up, rp, cr, cl, hd, ex, rt, xt, px>>

(***************************************************************************)
(* Bounds of the model.                                                    *)
(***************************************************************************)
\* longest explicitly enumerated checksum input, in bytes
MaxCrcLen == 3
\* longest ramdisk file handed to pack_rockchip_krnl_bootimg, in bytes
MaxRamdisk == 2
\* recorded image sizes run up to this many bytes past a multiple of 8192
MaxSlack == 16
\* most addfile calls on one archive
MaxAdds == 2
\* most patch files, and most replacement files, of one repack
MaxPatches == 3
MaxCopies == 2
\* most records of a stream read as an archive, and most iterators on it
MaxStream == 3
MaxIters == 1
MaxCloses == 2
\* most members of an archive that is extracted
MaxMembers == 3
\* Members added to an archive opened in append mode.
MaxAppends == 1
\* most members of an archive extracted while it is read
MaxExtract == 3
\* most read calls on a stream adapter, and most bytes of its plain content
MaxReads == 2
MaxPlain == 2

(***************************************************************************)
(* Integer helpers: Python's unbounded ints with explicit 32-bit masks.    *)
(***************************************************************************)
Min(a, b) == IF a < b THEN a ELSE b
Max(a, b) == IF a > b THEN a ELSE b

RECURSIVE BitXor(_, _)
BitXor(a, b) ==
    IF a = 0 THEN b
    ELSE IF b = 0 THEN a
    ELSE (((a % 2) + (b % 2)) % 2) + 2 * BitXor(a \div 2, b \div 2)

RECURSIVE BitAnd(_, _)
BitAnd(a, b) ==
    IF a = 0 \/ b = 0 THEN 0
    ELSE ((a % 2) * (b % 2)) + 2 * BitAnd(a \div 2, b \div 2)

RECURSIVE BitOr(_, _)
BitOr(a, b) ==
    IF a = 0 THEN b
    ELSE IF b = 0 THEN a
    ELSE Max(a % 2, b % 2) + 2 * BitOr(a \div 2, b \div 2)

\* all sequences over S of length 0..n
SeqsUpTo(S, n) == UNION {[1..k -> S] : k \in 0..n}

(***************************************************************************)
(* rkcrc32 (tools/utils/rockchip.py)                                       *)
(***************************************************************************)
\* A 32-bit word is kept as <<high 16 bits, low 16 bits>>: the checker's
\* integers are narrower than 0xffffffff.
HALF == 2 ^ 16
Word32 == (0 .. HALF - 1) \X (0 .. HALF - 1)
\* 0x04c10db7, high and low half
POLYHI == 1217
POLYLO == 3511
\* f.read(8192)
READSIZE == 8192

\* the byte values the checksum inputs are built from
CrcBytes == {0, 1, 128, 255}

\* A file is a pattern repeated up to a length: byte k (from 0) of the file.
ByteAt(p, k) == p.pat[(k % Len(p.pat)) + 1]
FileOf(s) == [pat |-> IF s = <<>> THEN <<0>> ELSE s, len |-> Len(s)]

\* crc ^= ((b << 24) & 0xffffffff)
XorByte(crc, b) == <<BitXor(crc[1], (b * 256) % HALF), crc[2]>>

Shl1Unmasked(crc) == <<crc[1] * 2 + (crc[2] \div (HALF \div 2)), (crc[2] * 2) % HALF>>
\* (crc << 1) & 0xffffffff
Shl1(crc) == <<(crc[1] * 2 + (crc[2] \div (HALF \div 2))) % HALF, (crc[2] * 2) % HALF>>

\* crc & 0x80000000
TopBit(crc) == (crc[1] \div (HALF \div 2)) % 2

\* one pass of "for i in range(0, 8)"
CrcRound(crc) ==
    IF TopBit(crc) # 0
    THEN <<BitXor(Shl1(crc)[1], POLYHI), BitXor(Shl1(crc)[2], POLYLO)>>
    ELSE Shl1(crc)

RECURSIVE CrcRounds(_, _)
CrcRounds(crc, n) == IF n = 0 THEN crc ELSE CrcRounds(CrcRound(crc), n - 1)

\* the body of "for b in data"
CrcByte(crc, b) == CrcRounds(XorByte(crc, b), 8)

\* rkcrc32 of a whole byte sequence (as called by pack_rockchip_krnl_bootimg)
RECURSIVE CrcFrom(_, _, _)
CrcFrom(s, k, crc) ==
    IF k > Len(s) THEN crc ELSE CrcFrom(s, k + 1, CrcByte(crc, s[k]))
rkcrc32(s) == CrcFrom(s, 1, <<0, 0>>)

RkInputs ==
    {FileOf(s) : s \in SeqsUpTo(CrcBytes, MaxCrcLen)}
    \cup {[pat |-> q, len |-> n] : q \in {<<255>>, <<1, 128>>},
                                   n \in {READSIZE - 1, READSIZE, READSIZE + 1}}

RkIdle == [p |-> FileOf(<<>>), pc |-> "idle", fpos |-> 0, dstart |-> 0,
           dlen |-> 0, i |-> 0, crc |-> <<0, 0>>]

\* with open(p, 'rb') as f: crc = 0
RkStart ==
    {[p |-> q, pc |-> "read", fpos |-> 0, dstart |-> 0, dlen |-> 0,
     i |-> 0, crc |-> <<0, 0>>] : q \in RkInputs}

\* data = f.read(8192); if len(data) == 0: return crc
RkRead ==
    /\ rk.pc = "read"
    /\ LET n == Min(READSIZE, rk.p.len - rk.fpos) IN
       rk' = [rk EXCEPT !.dstart = rk.fpos, !.dlen = n, !.i = 0,
                        !.fpos = rk.fpos + n,
                        !.pc = IF n = 0 THEN "done" ELSE "bytes"]
    /\ UNCHANGED OtherThanRk

\* for b in data: ...
RkByte ==
    /\ rk.pc = "bytes"
    /\ LET b == ByteAt(rk.p, rk.dstart + rk.i) IN
       rk' = [rk EXCEPT !.crc = CrcByte(rk.crc, b),
                        !.i = rk.i + 1,
                        !.pc = IF rk.i + 1 = rk.dlen THEN "read" ELSE "bytes"]
    /\ UNCHANGED OtherThanRk

NextCrc == RkRead \/ RkByte

(***************************************************************************)
(* C3 -- rkcrc32 returns the value of the documented algorithm.            *)
(***************************************************************************)
\* The documented checksum is the remainder of the message, followed by 32
\* zero bits, divided by x^32 + 0x04C10DB7, most significant bit first.
\* Bit j (from 0) of the first n bytes of file p:
MsgBit(p, j) == (ByteAt(p, j \div 8) \div (2 ^ (7 - (j % 8)))) % 2

\* shift the next message bit into the remainder and reduce it
PolyShift(reg, bit) ==
    IF reg[1] * 2 + (reg[2] \div (HALF \div 2)) >= HALF
    THEN <<BitXor(reg[1] * 2 + (reg[2] \div (HALF \div 2)) - HALF, POLYHI),
           BitXor(((reg[2] * 2) % HALF) + bit, POLYLO)>>
    ELSE <<reg[1] * 2 + (reg[2] \div (HALF \div 2)), ((reg[2] * 2) % HALF) + bit>>

RECURSIVE PolyRem(_, _, _, _)
PolyRem(p, n, j, reg) ==
    IF reg \notin Word32 \/ j >= 8 * n + 32 THEN reg
    ELSE PolyRem(p, n, j + 1,
                 PolyShift(reg, IF j < 8 * n THEN MsgBit(p, j) ELSE 0))

\* The documented step for one byte: XOR the byte into the top byte, then 8
\* times shift left by one and XOR the polynomial when the top bit was set.
DocRound(reg) ==
    LET hi == reg[1] * 2 + (reg[2] \div (HALF \div 2))
        lo == (reg[2] * 2) % HALF
    IN  IF hi >= HALF THEN <<BitXor(hi - HALF, POLYHI), BitXor(lo, POLYLO)>>
        ELSE <<hi, lo>>
DocByte(reg, b) ==
    DocRound(DocRound(DocRound(DocRound(DocRound(DocRound(DocRound(DocRound(
        <<BitXor(reg[1], b * 256), reg[2]>>))))))))

\* number of bytes of the file already folded into the accumulator
RkConsumed == IF rk.pc = "bytes" THEN rk.dstart + rk.i ELSE rk.fpos

C3State ==
    /\ rk.crc \in Word32
    /\ rk.p.len <= MaxCrcLen =>
           rk.crc = PolyRem(rk.p, RkConsumed, 0, <<0, 0>>)
    /\ rk.pc = "done" =>
           /\ RkConsumed = rk.p.len
           /\ rk.p.len = 0 => rk.crc = <<0, 0>>

C3Step ==
    rk.pc = "bytes" =>
        /\ rk'.crc = DocByte(rk.crc, ByteAt(rk.p, RkConsumed))
        /\ RkConsumed' = RkConsumed + 1

\* C3: for every byte sequence the accumulator stays a 32-bit value, after
\* every byte it is the documented function of the bytes read so far, every
\* byte of the file is folded in exactly once and in order wherever the
\* 8192-byte reads split the file, and the empty file yields 0.
ThmC3 == [](C3State) /\ [][C3Step]_vars

\* a file longer than one read has been summed across the read boundary
WitC3 == rk.pc = "done" /\ rk.p.len = READSIZE + 1 /\ rk.crc # <<0, 0>>

(***************************************************************************)
(* pad (tools/utils/__init__.py) and pack_rockchip_krnl_bootimg            *)
(* (tools/utils/rockchip.py)                                               *)
(***************************************************************************)
\* len(padding), padding = b'\0' * 8192
PADLEN == 8192

\* A file on disk: its leading bytes one by one, then runs <<byte, count>>.
NoFile == [exists |-> FALSE, bytes |-> <<>>, tail |-> <<>>]
MkFile(s) == [exists |-> TRUE, bytes |-> s, tail |-> <<>>]

RECURSIVE RunsLen(_)
RunsLen(t) == IF t = <<>> THEN 0 ELSE t[1][2] + RunsLen(Tail(t))
FileLen(f) == Len(f.bytes) + RunsLen(f.tail)

\* file.write(s) and file.write(padding[0:n]) at the end of the file
WriteBytes(f, s) == [f EXCEPT !.bytes = f.bytes \o s]
WriteRun(f, b, n) == [f EXCEPT !.tail = Append(f.tail, <<b, n>>)]

\* struct.pack('<I', x) for x given as a 32-bit word, and its inverse
PackLE32(w) == <<w[2] % 256, w[2] \div 256, w[1] % 256, w[1] \div 256>>
UnpackLE32(s) == <<s[3] + 256 * s[4], s[1] + 256 * s[2]>>
ToWord(n) == <<n \div HALF, n % HALF>>

\* b'KRNL'
KRNL == <<75, 82, 78, 76>>

\* open(boot_img, mode='wb'): the file is created or truncated
OpenWB(f) == MkFile(<<>>)

\* open(path, mode='ab'): created when missing, content kept, position at end
OpenAB(f) == IF f.exists THEN f ELSE MkFile(<<>>)

KpSourceOriginal(k) == k.ramdisk
\* ramdisk.patched if it exists, else ramdisk
KpSource(k) == IF k.patched.exists THEN k.patched ELSE k.ramdisk

PadChunkWhole(size, tell) == PADLEN
\* n = min(size - file.tell(), len(padding))
PadChunk(size, tell) == Min(size - tell, PADLEN)

RamdiskBytes == {0, 31, 255}
KpImageSizes ==
    {m * PADLEN + k : m \in 0..2, k \in 0..MaxSlack}

KpIdle == [ramdisk |-> NoFile, patched |-> NoFile, image_size |-> 0,
           out |-> NoFile, pc |-> "idle", src |-> NoFile, crc |-> <<0, 0>>,
           padIn |-> NoFile, nwrites |-> 0]

KpStart ==
    {[ramdisk |-> MkFile(r), patched |-> q, image_size |-> z,
             out |-> o, pc |-> "open", src |-> NoFile, crc |-> <<0, 0>>,
             padIn |-> NoFile, nwrites |-> 0] :
                r \in SeqsUpTo(RamdiskBytes, MaxRamdisk),
                q \in {NoFile} \cup {MkFile(x) : x \in SeqsUpTo(RamdiskBytes, 1)},
                z \in KpImageSizes,
                o \in {NoFile, MkFile(<<7, 7, 7, 7, 7, 7, 7, 7, 7, 7, 7, 7, 7, 7>>)}}

\* ramdisk = ...; with open(boot_img, mode='wb') as image_file
KpOpen ==
    /\ kp.pc = "open"
    /\ kp' = [kp EXCEPT !.src = KpSource(kp), !.out = OpenWB(kp.out),
                        !.pc = "magic"]
    /\ UNCHANGED OtherThanKp

\* image_file.write(b'KRNL')
KpWriteMagic ==
    /\ kp.pc = "magic"
    /\ kp' = [kp EXCEPT !.out = WriteBytes(kp.out, KRNL), !.pc = "size"]
    /\ UNCHANGED OtherThanKp

\* image_file.write(pack('<I', ramdisk.stat().st_size))
KpWriteSize ==
    /\ kp.pc = "size"
    /\ kp' = [kp EXCEPT
                !.out = WriteBytes(kp.out, PackLE32(ToWord(FileLen(kp.src)))),
                !.pc = "crc"]
    /\ UNCHANGED OtherThanKp

\* crc = rkcrc32(ramdisk)
KpCrc ==
    /\ kp.pc = "crc"
    /\ kp' = [kp EXCEPT !.crc = rkcrc32(kp.src.bytes), !.pc = "copy"]
    /\ UNCHANGED OtherThanKp

\* shutil.copyfileobj(ramdisk_file, image_file)
KpCopy ==
    /\ kp.pc = "copy"
    /\ kp' = [kp EXCEPT !.out = WriteBytes(kp.out, kp.src.bytes),
                        !.pc = "wcrc"]
    /\ UNCHANGED OtherThanKp

\* image_file.write(pack('<I', crc)); the file is closed;
\* pad(boot_img, image_size) opens it again for appending
KpWriteCrc ==
    /\ kp.pc = "wcrc"
    /\ LET body == WriteBytes(kp.out, PackLE32(kp.crc)) IN
       kp' = [kp EXCEPT !.out = OpenAB(body), !.padIn = body, !.pc = "pad"]
    /\ UNCHANGED OtherThanKp

\* while file.tell() < size: file.write(padding[0:n])
KpPadWrite ==
    /\ kp.pc = "pad"
    /\ FileLen(kp.out) < kp.image_size
    /\ kp' = [kp EXCEPT
                !.out = WriteRun(kp.out, 0, PadChunk(kp.image_size, FileLen(kp.out))),
                !.nwrites = kp.nwrites + 1]
    /\ UNCHANGED OtherThanKp

\* the loop ends and the file is closed
KpPadDone ==
    /\ kp.pc = "pad"
    /\ ~(FileLen(kp.out) < kp.image_size)
    /\ kp' = [kp EXCEPT !.pc = "done"]
    /\ UNCHANGED OtherThanKp

NextKrnl ==
    \/ KpOpen \/ KpWriteMagic \/ KpWriteSize \/ KpCrc \/ KpCopy
    \/ KpWriteCrc \/ KpPadWrite \/ KpPadDone

(***************************************************************************)
(* C2 -- pad leaves a file of length max(L, image_size).                   *)
(***************************************************************************)
\* C2: once pad has returned, the file is max(L, image_size) bytes long, its
\* first L bytes are the body as it was when pad was called, every byte
\* after them is NUL and was written in pieces of at most 8192 bytes, and
\* when L >= image_size nothing was written; while pad runs the file never
\* gets shorter than L.
ThmC2 ==
    /\ kp.pc = "pad" =>
           /\ FileLen(kp.out) >= FileLen(kp.padIn)
           /\ kp.out.bytes = kp.padIn.bytes
    /\ kp.pc = "done" =>
           /\ FileLen(kp.out) = Max(FileLen(kp.padIn), kp.image_size)
           /\ kp.out.bytes = kp.padIn.bytes
           /\ \A i \in 1..Len(kp.out.tail) :
                 kp.out.tail[i][1] = 0 /\ kp.out.tail[i][2] \in 1..PADLEN
           /\ FileLen(kp.padIn) >= kp.image_size =>
                 kp.out = kp.padIn /\ kp.nwrites = 0

\* a body padded with two writes, the first of them a full 8192 bytes
WitC2 == kp.pc = "done" /\ kp.nwrites = 2 /\ kp.out.tail[1][2] = PADLEN

(***************************************************************************)
(* C4 -- the image before padding is KRNL, size, ramdisk, checksum.        *)
(***************************************************************************)
\* the ramdisk the claim calls R
KpR == IF kp.patched.exists THEN kp.patched.bytes ELSE kp.ramdisk.bytes

\* C4: the file handed to pad is 12 + len(R) bytes: "KRNL", then a
\* little-endian size field that decodes to len(R), then R itself, then a
\* little-endian field that decodes to the documented checksum of R, where R
\* is ramdisk.patched when that file exists and ramdisk otherwise.
ThmC4 ==
    kp.pc \in {"pad", "done"} =>
        /\ kp.padIn.tail = <<>>
        /\ Len(kp.padIn.bytes) = 12 + Len(KpR)
        /\ SubSeq(kp.padIn.bytes, 1, 4) = KRNL
        /\ UnpackLE32(SubSeq(kp.padIn.bytes, 5, 8)) = ToWord(Len(KpR))
        /\ SubSeq(kp.padIn.bytes, 9, 8 + Len(KpR)) = KpR
        /\ UnpackLE32(SubSeq(kp.padIn.bytes, 9 + Len(KpR), 12 + Len(KpR)))
               = PolyRem(FileOf(KpR), Len(KpR), 0, <<0, 0>>)

\* a patched ramdisk that differs from the original one has been framed
WitC4 ==
    /\ kp.pc = "done"
    /\ kp.patched.exists
    /\ kp.patched.bytes # kp.ramdisk.bytes
    /\ kp.patched.bytes # <<>>

(***************************************************************************)
(* CpioInfo.tobuf, CpioFile.addfile and CpioFile.close                     *)
(* (tools/utils/cpiofile.py)                                               *)
(***************************************************************************)
WORDSIZE == 4
\* 0x070701
MAGIC_NEWC == 460545
\* b"TRAILER!!!"
TRAILER_NAME == <<84, 82, 65, 73, 76, 69, 82, 33, 33, 33>>
\* 0o100000, 0o040000, 0o120000
S_IFREG == 32768
S_IFDIR == 16384
S_IFLNK == 40960
\* S_IFREG | 0o644, S_IFDIR | 0o755, S_IFLNK | 0o777
ModeReg == S_IFREG + 420
ModeDir == S_IFDIR + 493
ModeLnk == S_IFLNK + 511

\* A Python int is kept as its hexadecimal digits, most significant first,
\* when it can exceed the checker's integers (inode numbers: st_ino).
RECURSIVE ToHex(_)
ToHex(n) == IF n < 16 THEN <<n>> ELSE ToHex(n \div 16) \o <<n % 16>>

HexChar(d) == IF d < 10 THEN 48 + d ELSE 55 + d
Zeros(n) == [i \in 1..n |-> 48]

\* b"%0wX" % value: at least w characters, more when the value needs them
Fmt(digits, w) ==
    Zeros(Max(0, w - Len(digits))) \o [i \in 1..Len(digits) |-> HexChar(digits[i])]

Nuls(n) == [i \in 1..n |-> 0]
\* _, remainder = divmod(len(buf), WORDSIZE); pad to next word
PadTo(buf) ==
    IF Len(buf) % WORDSIZE # 0
    THEN buf \o Nuls(WORDSIZE - (Len(buf) % WORDSIZE))
    ELSE buf

\* CpioInfo.__init__
CpioInfo(name) ==
    [name |-> name, ino |-> <<0>>, mode |-> S_IFREG + 292, uid |-> 0, gid |-> 0,
     nlink |-> 1, mtime |-> 0, size |-> 0, devmajor |-> 0, devminor |-> 0,
     rdevmajor |-> 0, rdevminor |-> 0, check |-> 0, linkname |-> <<>>]

\* self.linkname == '' and self.size or len(self.linkname)
SizeField(m) == IF m.linkname = <<>> THEN m.size ELSE Len(m.linkname)

\* the 14 formatted fields, then the name and its terminating NUL
HeaderAndName(m) ==
    Fmt(ToHex(MAGIC_NEWC), 6) \o Fmt(m.ino, 8) \o Fmt(ToHex(m.mode), 8)
    \o Fmt(ToHex(m.uid), 8) \o Fmt(ToHex(m.gid), 8)
    \o Fmt(ToHex(m.nlink), 8) \o Fmt(ToHex(m.mtime), 8)
    \o Fmt(ToHex(SizeField(m)), 8) \o Fmt(ToHex(m.devmajor), 8)
    \o Fmt(ToHex(m.devminor), 8) \o Fmt(ToHex(m.rdevmajor), 8)
    \o Fmt(ToHex(m.rdevminor), 8) \o Fmt(ToHex(Len(m.name) + 1), 8)
    \o Fmt(ToHex(m.check), 8) \o m.name \o <<0>>

\* CpioInfo.tobuf: the header as bytes
tobuf(m) ==
    IF m.linkname # <<>>
    THEN PadTo(PadTo(HeaderAndName(m)) \o m.linkname)
    ELSE PadTo(HeaderAndName(m))

\* The output stream as the pieces written to it, each with its length and
\* the number of the addfile call (0: close) that wrote it.
StreamLen(st) ==
    LET RECURSIVE Sum(_)
        Sum(k) == IF k = 0 THEN 0 ELSE st[k].n + Sum(k - 1)
    IN  Sum(Len(st))

\* the names a member of the work tree or a caller may carry: k letters
NameOfLen(k) == [i \in 1..k |-> 96 + k]
\* inode numbers: two small ones and 0x100000000
InoSmall == <<1>>
InoOther == <<2>>
InoWide == <<1, 0, 0, 0, 0, 0, 0, 0, 0>>

MemberOf(name, ino, mode, nlink, size, link) ==
    [CpioInfo(name) EXCEPT !.ino = ino, !.mode = mode, !.nlink = nlink,
                           !.size = size, !.linkname = link]

\* The calls addfile(cpioinfo, fileobj) made in the model: regular files
\* with their content, members without content, and symbolic links.
CwCalls ==
    {[m |-> MemberOf(NameOfLen(k), InoSmall, ModeReg, 2, z, <<>>), data |-> TRUE] :
         k \in 4..7, z \in 0..3}
    \cup {[m |-> MemberOf(NameOfLen(k), x[1], ModeReg, x[2], 1, <<>>), data |-> TRUE] :
         k \in 4..5, x \in {<<InoSmall, 1>>, <<InoOther, 2>>, <<InoWide, 2>>}}
    \cup {[m |-> MemberOf(NameOfLen(k), i, ModeDir, 2, 0, <<>>), data |-> FALSE] :
         k \in 4..7, i \in {InoOther, InoWide}}
    \cup {[m |-> MemberOf(NameOfLen(k), InoSmall, ModeLnk, n, 0, NameOfLen(l)),
           data |-> FALSE] : k \in 4..5, l \in 1..4, n \in 1..2}

CwIdle == [mode |-> "idle", closed |-> TRUE, hardlinks |-> TRUE, offset |-> 0,
           members |-> <<>>, inodes |-> <<>>, stream |-> <<>>,
           args |-> <<>>, given |-> <<>>]

\* cpiofile.open(name, mode="w"): CpioFile.__init__
CwStart ==
    {[mode |-> "w", closed |-> FALSE, hardlinks |-> h, offset |-> 0,
             members |-> <<>>, inodes |-> <<>>, stream |-> <<>>,
             args |-> <<>>, given |-> <<>>] : h \in BOOLEAN}

AddFileNoCopy(m) == [obj |-> m, alias |-> TRUE]
\* cpioinfo = copy.copy(cpioinfo): a new object, the caller keeps its own
CopyCopy(m) == [obj |-> m, alias |-> FALSE]

AlreadyAddedNever(c, ino) == FALSE
\* self.hardlinks and cpioinfo.ino in self.inodes
AlreadyAdded(c, ino) == c.hardlinks /\ ino \in DOMAIN c.inodes

\* CpioFile.addfile(cpioinfo, fileobj)
AddFile ==
    /\ ~cw.closed /\ cw.mode = "w"
    /\ Len(cw.members) < MaxAdds
    /\ \E call \in CwCalls :
         LET cp   == CopyCopy(call.m)
             dup  == call.m.nlink > 1 /\ AlreadyAdded(cw, call.m.ino)
             c    == IF dup THEN [cp.obj EXCEPT !.size = 0] ELSE cp.obj
             ino2 == IF call.m.nlink > 1
                     THEN IF dup
                          THEN [cw.inodes EXCEPT ![c.ino] = Append(@, c.name)]
                          ELSE (c.ino :> <<c.name>>) @@ cw.inodes
                     ELSE cw.inodes
             k    == Len(cw.members) + 1
             buf  == tobuf(c)
             off1 == cw.offset + Len(buf)
             off2 == IF call.data THEN off1 + c.size ELSE off1
             rem  == off2 % WORDSIZE
             pad  == IF call.data /\ rem > 0 THEN WORDSIZE - rem ELSE 0
         IN  cw' = [cw EXCEPT
                 !.inodes = ino2,
                 !.stream = cw.stream
                     \o <<[k |-> "buf", n |-> Len(buf), m |-> k]>>
                     \o (IF call.data THEN <<[k |-> "data", n |-> c.size, m |-> k]>>
                         ELSE <<>>)
                     \o (IF pad > 0 THEN <<[k |-> "pad", n |-> pad, m |-> k]>>
                         ELSE <<>>),
                 !.offset = off2 + pad,
                 !.members = Append(cw.members, c),
                 !.args = Append(cw.args, call),
                 !.given = Append(cw.given, IF cp.alias THEN c ELSE call.m)]
    /\ UNCHANGED OtherThanCw

\* CpioFile.close in mode "w": the trailer record
CwClose ==
    /\ ~cw.closed
    /\ LET trailer == [CpioInfo(TRAILER_NAME) EXCEPT !.mode = 0]
           buf     == tobuf(trailer)
       IN  cw' = [cw EXCEPT
                 !.stream = Append(cw.stream, [k |-> "buf", n |-> Len(buf), m |-> 0]),
                 !.offset = cw.offset + Len(buf),
                 !.closed = TRUE]
    /\ UNCHANGED OtherThanCw

\* CpioFile.close on a closed archive: "if self.closed: return"
CwCloseAgain ==
    /\ cw.closed /\ cw.mode = "w"
    /\ UNCHANGED vars

NextCw == AddFile \/ CwClose \/ CwCloseAgain

(***************************************************************************)
(* C5 -- offsets and padding of a write-mode archive.                      *)
(***************************************************************************)
\* offset in the stream at which piece k starts
RECURSIVE StartOf(_, _)
StartOf(st, k) == IF k = 1 THEN 0 ELSE StartOf(st, k - 1) + st[k - 1].n

Pad4(n) == (4 - (n % 4)) % 4
\* header, name, NUL and pad as the claim counts them, then the link target
\* and its pad
ClaimedBufLen(m) ==
    LET h == 110 + Len(m.name) + 1
        l == Len(m.linkname)
    IN  h + Pad4(h) + l + (IF l > 0 THEN Pad4(h + Pad4(h) + l) ELSE 0)

\* the part of C5 that holds for every member: the logical offset is the
\* number of bytes written, and every header starts on a 4-byte boundary
CwOffsetAligned ==
    /\ cw.offset = StreamLen(cw.stream)
    /\ cw.offset % 4 = 0
    /\ \A k \in 1..Len(cw.stream) :
          cw.stream[k].k = "buf" => StartOf(cw.stream, k) % 4 = 0

\* C5 as claimed: after any sequence of addfile calls the logical offset
\* equals the number of bytes written and is a multiple of 4, every header
\* starts on a 4-byte boundary, and the pad after header+name is
\* (4 - (110 + len(name) + 1) mod 4) mod 4 NUL bytes.
CexC5 ==
    /\ CwOffsetAligned
    /\ \A k \in 1..Len(cw.stream) :
          (cw.stream[k].k = "buf" /\ cw.stream[k].m > 0) =>
              cw.stream[k].n = ClaimedBufLen(cw.members[cw.stream[k].m])

(***************************************************************************)
(* C6 -- hardlink groups in a write-mode archive.                          *)
(***************************************************************************)
\* payload bytes written for the k-th addfile call
DataLen(k) ==
    LET RECURSIVE Sum(_)
        Sum(j) == IF j = 0 THEN 0
                  ELSE (IF cw.stream[j].k = "data" /\ cw.stream[j].m = k
                        THEN cw.stream[j].n ELSE 0) + Sum(j - 1)
    IN  Sum(Len(cw.stream))

\* the earlier calls that passed a member of the same hardlink group
Earlier(j) ==
    {i \in 1..(j - 1) : /\ cw.args[i].m.nlink > 1
                        /\ cw.args[i].m.ino = cw.args[j].m.ino}

\* names of the members with link count > 1 and inode ino, in call order
RECURSIVE GroupNames(_, _)
GroupNames(ino, j) ==
    IF j = 0 THEN <<>>
    ELSE GroupNames(ino, j - 1)
         \o (IF cw.args[j].m.nlink > 1 /\ cw.args[j].m.ino = ino
             THEN <<cw.args[j].m.name>> ELSE <<>>)

S_IFMT == 61440
\* 0o177000, the bits of the live mode that pack keeps
KEEPBITS == 65024

\* int(s, 8) of a string of octal digits
RECURSIVE OctInt(_)
OctInt(s) ==
    IF Len(s) = 0 THEN 0
    ELSE 8 * OctInt(SubSeq(s, 1, Len(s) - 1)) + s[Len(s)]

\* oct(n)[2:]
RECURSIVE OctStr(_)
OctStr(n) ==
    IF n < 8 THEN <<n>> ELSE Append(OctStr(n \div 8), n % 8)

isdir(mode) == BitAnd(mode, S_IFMT) = S_IFDIR
isreg(mode) == BitAnd(mode, S_IFMT) = S_IFREG

default_file_attr == [uid |-> 0, gid |-> 0, mode |-> <<6, 4, 4>>, mtime |-> 0]
default_dir_attr == [uid |-> 0, gid |-> 0, mode |-> <<7, 5, 5>>, mtime |-> 0]

\* {**a, **b}
DictMergeFirstWins(a, b) ==
    [n \in DOMAIN a \cup DOMAIN b |-> IF n \in DOMAIN a THEN a[n] ELSE b[n]]
DictMerge(a, b) ==
    [n \in DOMAIN a \cup DOMAIN b |-> IF n \in DOMAIN b THEN b[n] ELSE a[n]]

\* d.get(n, default)
DictGet(d, n, default) == IF n \in DOMAIN d THEN d[n] ELSE default

\* f.getcpioinfo(file, arcname): the fields pack goes on to override
GetCpioInfo(file) ==
    [name |-> file.name, mode |-> file.st_mode, uid |-> file.st_uid,
     gid |-> file.st_gid, mtime |-> file.st_mtime]

\* cpioinfo.uid = ..., .gid = ..., .mode = int(mode, 8) | (mode & 0o177000),
\* .mtime = ...
ApplyAttr(ci, file_attr) ==
    [ci EXCEPT !.uid = file_attr.uid,
               !.gid = file_attr.gid,
               !.mode = BitOr(OctInt(file_attr.mode), BitAnd(ci.mode, KEEPBITS)),
               !.mtime = file_attr.mtime]

PkNames == {"etc", "init"}
\* attribute entries: rwx only, with setuid, and a full st_mode string
PkAttrs ==
    {[uid |-> 1000, gid |-> 1000, mode |-> <<6, 0, 0>>, mtime |-> 5],
     [uid |-> 0, gid |-> 0, mode |-> <<4, 7, 5, 5>>, mtime |-> 0],
     [uid |-> 2, gid |-> 3, mode |-> <<1, 0, 0, 6, 4, 4>>, mtime |-> 7]}
PkTables == UNION {[D -> PkAttrs] : D \in SUBSET PkNames}
\* live st_mode values: plain file, setuid file, directory, sticky
\* directory, symbolic link
PkLiveModes ==
    {S_IFREG + 420, S_IFREG + 2541, S_IFDIR + 493, S_IFDIR + 1023, S_IFLNK + 511}
PkLive(n, md) ==
    [name |-> n, st_mode |-> md, st_uid |-> 500, st_gid |-> 501, st_mtime |-> 99]

PkIdle ==
    [info |-> <<>>, extra |-> [given |-> FALSE, tab |-> <<>>], files |-> <<>>,
     ramdisk_files |-> <<>>, i |-> 0, out |-> <<>>, pc |-> "idle"]

PkStart ==
    {[info |-> t, extra |-> x, files |-> <<PkLive("etc", m1), PkLive("init", m2)>>,
      ramdisk_files |-> <<>>, i |-> 1, out |-> <<>>, pc |-> "start"] :
         t \in PkTables,
         x \in {[given |-> FALSE, tab |-> <<>>]}
                 \cup {[given |-> TRUE, tab |-> e] : e \in PkTables},
         m1 \in PkLiveModes, m2 \in PkLiveModes}

\* ramdisk_files = info["ramdisk_files"]; merged with the extra table if given
PkMerge ==
    /\ pk.pc = "start"
    /\ pk' = [pk EXCEPT !.ramdisk_files =
                            IF pk.extra.given THEN DictMerge(pk.info, pk.extra.tab)
                            ELSE pk.info,
                        !.pc = "loop"]
    /\ UNCHANGED OtherThanPk

\* one round of "for file in files"
PkMember ==
    /\ pk.pc = "loop"
    /\ pk.i <= Len(pk.files)
    /\ LET cpioinfo == GetCpioInfo(pk.files[pk.i])
           file_attr == DictGet(pk.ramdisk_files, cpioinfo.name,
                                IF isdir(cpioinfo.mode) THEN default_dir_attr
                                ELSE default_file_attr)
       IN pk' = [pk EXCEPT !.out = Append(@, ApplyAttr(cpioinfo, file_attr)),
                           !.i = @ + 1]
    /\ UNCHANGED OtherThanPk

\* the loop is over: the archive is closed and the container is written
PkFinish ==
    /\ pk.pc = "loop"
    /\ pk.i > Len(pk.files)
    /\ pk' = [pk EXCEPT !.pc = "done"]
    /\ UNCHANGED OtherThanPk

NextPack == PkMerge \/ PkMember \/ PkFinish

(***************************************************************************)
(* C8                                                                      *)
(***************************************************************************)
\* the entry the claim names for the k-th path of the work tree
C8Source(k) ==
    LET n == pk.files[k].name
    IN IF pk.extra.given /\ n \in DOMAIN pk.extra.tab THEN pk.extra.tab[n]
       ELSE IF n \in DOMAIN pk.info THEN pk.info[n]
       ELSE [uid |-> 0, gid |-> 0, mtime |-> 0,
             mode |-> IF BitAnd(pk.files[k].st_mode, 61440) = 16384
                      THEN <<7, 5, 5>> ELSE <<6, 4, 4>>]

\* C8: every packed member has the uid, gid and mtime, and every mode bit,
\* of the first of: extra override table, descriptor table, hardcoded
\* default (directories 755, anything else 644, uid 0, gid 0, mtime 0)
\* that contains its path; its nine permission bits are exactly that
\* entry's.
ThmC8 ==
    \A k \in 1..Len(pk.out) :
        LET src == C8Source(k)
            m == pk.out[k]
        IN /\ m.name = pk.files[k].name
           /\ m.uid = src.uid /\ m.gid = src.gid /\ m.mtime = src.mtime
           /\ m.mode % 512 = OctInt(src.mode) % 512
           /\ BitAnd(m.mode, OctInt(src.mode)) = OctInt(src.mode)

WitC8 ==
    /\ pk.pc = "done"
    /\ pk.extra.given
    /\ "init" \in DOMAIN pk.extra.tab /\ "init" \in DOMAIN pk.info
    /\ pk.extra.tab["init"].uid # pk.info["init"].uid
    /\ "etc" \notin DOMAIN pk.extra.tab /\ "etc" \notin DOMAIN pk.info
    /\ isdir(pk.files[1].st_mode)
    /\ pk.out[1].mode = S_IFDIR + 493

\* a path the descriptor table alone contains is packed from that table
WitC8Descriptor ==
    /\ pk.pc = "done"
    /\ pk.extra.given
    /\ "etc" \notin DOMAIN pk.extra.tab /\ "etc" \in DOMAIN pk.info
    /\ pk.out[1].uid = 1000

(***************************************************************************)
(* C7                                                                      *)
(***************************************************************************)
\* C7: for every path with an entry in the table pack uses, the member's
\* uid, gid, mtime and its mode bits below the entry-type bits equal the
\* table's, whatever the live metadata (live setuid/setgid/sticky bits
\* included), and its entry-type bits equal the live entry's, whatever the
\* table's mode string.
CexC7 ==
    \A k \in 1..Len(pk.out) :
        pk.files[k].name \in DOMAIN pk.ramdisk_files =>
            LET t == pk.ramdisk_files[pk.files[k].name]
                m == pk.out[k]
            IN /\ m.uid = t.uid /\ m.gid = t.gid /\ m.mtime = t.mtime
               /\ BitAnd(m.mode, 4095) = BitAnd(OctInt(t.mode), 4095)
               /\ BitAnd(m.mode, 61440) = BitAnd(pk.files[k].st_mode, 61440)

\* what does hold: uid, gid, mtime and the nine rwx bits are the table's
PkPermBitsFromTable ==
    \A k \in 1..Len(pk.out) :
        pk.files[k].name \in DOMAIN pk.ramdisk_files =>
            LET t == pk.ramdisk_files[pk.files[k].name]
                m == pk.out[k]
            IN /\ m.uid = t.uid /\ m.gid = t.gid /\ m.mtime = t.mtime
               /\ m.mode % 512 = OctInt(t.mode) % 512

\* setuid/setgid/sticky are set when the table or the live entry sets them
PkSpecialBitsFromBoth ==
    \A k \in 1..Len(pk.out) :
        pk.files[k].name \in DOMAIN pk.ramdisk_files =>
            LET t == pk.ramdisk_files[pk.files[k].name]
            IN BitAnd(pk.out[k].mode, 3584)
                   = BitOr(BitAnd(OctInt(t.mode), 3584),
                           BitAnd(pk.files[k].st_mode, 3584))

\* the type bits are the live ones when the table's mode string has none
PkTypeBitsLiveForPermStrings ==
    \A k \in 1..Len(pk.out) :
        (/\ pk.files[k].name \in DOMAIN pk.ramdisk_files
         /\ OctInt(pk.ramdisk_files[pk.files[k].name].mode) < 4096) =>
            BitAnd(pk.out[k].mode, 61440) = BitAnd(pk.files[k].st_mode, 61440)

(***************************************************************************)
(* Transparent compression detection of the stream interface               *)
(* (cpiofile._Stream with comptype '*', cpiofile._StreamProxy).            *)
(***************************************************************************)
BLOCKSIZE == 512

\* buf.startswith(prefix)
StartsWith(buf, prefix) ==
    /\ Len(buf) >= Len(prefix)
    /\ SubSeq(buf, 1, Len(prefix)) = prefix

\* b"\037\213\010", b"BZh91", b"\xfd7zXZ\0"
GZ_MAGIC == <<31, 139, 8>>
BZ2_MAGIC == <<66, 90, 104, 57, 49>>
XZ_MAGIC == <<253, 55, 122, 88, 90, 0>>

getcomptype(buf) ==
    IF StartsWith(buf, GZ_MAGIC) THEN "gz"
    ELSE IF StartsWith(buf, BZ2_MAGIC) THEN "bz2"
    ELSE IF StartsWith(buf, XZ_MAGIC) THEN "xz"
    ELSE "cpio"

\* "070701", the first bytes of an uncompressed archive
DetNewc == <<48, 55, 48, 55, 48, 49>>
\* what follows the (possibly cut) magic: nothing, the bzip2 end-of-stream
\* byte 0x17 of an empty stream, "1", gzip's method byte, NUL, "91"
DetTails == {<<>>, <<23>>, <<49>>, <<8>>, <<0>>, <<57, 49>>}
DetStreams ==
    {SubSeq(m, 1, Min(k, Len(m))) \o t :
        m \in {GZ_MAGIC, BZ2_MAGIC, XZ_MAGIC, DetNewc}, k \in 0..6, t \in DetTails}

DetIdle == [stream |-> <<>>, buf |-> <<>>, comptype |-> "idle", cmp |-> "idle",
            pc |-> "idle"]
DetStart ==
    {[stream |-> s, buf |-> <<>>, comptype |-> "*", cmp |-> "none", pc |-> "proxy"] :
        s \in DetStreams}

\* fileobj = _StreamProxy(fileobj): self.buf = self.fileobj.read(BLOCKSIZE)
DetProxy ==
    /\ det.pc = "proxy"
    /\ det.comptype = "*"
    /\ det' = [det EXCEPT !.buf = SubSeq(det.stream, 1,
                                         Min(Len(det.stream), BLOCKSIZE)),
                          !.pc = "detect"]
    /\ UNCHANGED OtherThanDet

\* comptype = fileobj.getcomptype()
DetDetect ==
    /\ det.pc = "detect"
    /\ det' = [det EXCEPT !.comptype = getcomptype(det.buf), !.pc = "init"]
    /\ UNCHANGED OtherThanDet

\* the rest of _Stream.__init__: the decompressor for the chosen scheme
DetCodec ==
    /\ det.pc = "init"
    /\ det' = [det EXCEPT !.cmp = CASE det.comptype = "gz" -> "zlib"
                                    [] det.comptype = "bz2" -> "BZ2Decompressor"
                                    [] det.comptype = "xz" -> "LZMADecompressor"
                                    [] OTHER -> "none",
                          !.pc = "done"]
    /\ UNCHANGED OtherThanDet

NextDetect == DetProxy \/ DetDetect \/ DetCodec

(***************************************************************************)
(* C9                                                                      *)
(***************************************************************************)
\* C9: auto-detection chooses by the leading bytes: 1F 8B 08 selects gzip,
\* the four bytes "BZh9" select bzip2 whatever byte follows, and a stream
\* with neither prefix is read as uncompressed archive data.
CexC9 ==
    det.pc = "done" =>
        /\ StartsWith(det.stream, <<31, 139, 8>>) =>
               det.comptype = "gz" /\ det.cmp = "zlib"
        /\ StartsWith(det.stream, <<66, 90, 104, 57>>) =>
               det.comptype = "bz2" /\ det.cmp = "BZ2Decompressor"
        /\ (/\ ~StartsWith(det.stream, <<31, 139, 8>>)
            /\ ~StartsWith(det.stream, <<66, 90, 104, 57>>)) =>
               det.comptype = "cpio" /\ det.cmp = "none"

\* the "BZh9" part alone: refuted by "BZh9" followed by 0x17
C9FourBytesSelectBzip2 ==
    (det.pc = "done" /\ StartsWith(det.stream, <<66, 90, 104, 57>>)) =>
        det.comptype = "bz2"

\* what does hold: gzip on 1F 8B 08, bzip2 on the five bytes "BZh91", xz on
\* the six-byte xz magic, uncompressed otherwise
DetFiveByteLaw ==
    det.pc = "done" =>
        /\ StartsWith(det.stream, <<31, 139, 8>>) <=> det.comptype = "gz"
        /\ StartsWith(det.stream, <<66, 90, 104, 57, 49>>) <=> det.comptype = "bz2"
        /\ StartsWith(det.stream, <<253, 55, 122, 88, 90, 0>>) <=> det.comptype = "xz"
        /\ det.comptype \in {"gz", "bz2", "xz", "cpio"}

(***************************************************************************)
(* CpioFile.open and CpioFile.close: who closes the underlying stream      *)
(* (utils/cpiofile.py).  An archive is opened under a mode string, either   *)
(* from a file name or on a stream of the caller (an io.BytesIO or another  *)
(* binary file object) holding uncompressed, gzip, bzip2 or xz data.        *)
(***************************************************************************)
ClComptypes == <<"cpio", "gz", "bz2", "xz">>
ClContents == {ClComptypes[i] : i \in DOMAIN ClComptypes}
ClSources == {"name", "BytesIO", "file"}

\* the mode strings of the docstring of CpioFile.open, split at ":" or "|"
ClModes ==
    {[fmode |-> f, sep |-> s, comp |-> c] :
        f \in {"r", "w", "a"}, s \in {"", ":", "|"},
        c \in {"", "*", "gz", "bz2", "xz"}}
ClDocumented(m) ==
    \/ m.sep = "" /\ m.comp = ""
    \/ m.sep = ":" /\ m.fmode = "r"
    \/ m.sep = ":" /\ m.fmode = "w" /\ m.comp # "*"
    \/ m.sep = ":" /\ m.fmode = "a" /\ m.comp = ""
    \/ m.sep = "|" /\ m.fmode = "r"
    \/ m.sep = "|" /\ m.fmode = "w" /\ m.comp # "*"

Supplied(src) == src # "name"

Refused(e) ==
    [ok |-> FALSE, wrapper |-> "none", ext |-> FALSE, sext |-> FALSE, err |-> e]

\* CpioFile.__init__(name, mode, fileobj): _extfileobj is set iff a fileobj
\* was passed; read mode decodes the first header through fileobj
CpioInit(fmode, decodes, wrapper, given) ==
    IF fmode = "r" /\ ~decodes THEN Refused("ReadError")
    ELSE [ok |-> TRUE, wrapper |-> wrapper, ext |-> given, sext |-> FALSE,
          err |-> "none"]

cpioopen(fmode, src, content) ==
    CpioInit(fmode, content = "cpio",
             IF Supplied(src) THEN "caller" ELSE "builtin", Supplied(src))

\* the archive reads through a gzip.GzipFile, then "t._extfileobj = False"
gzopen(fmode, src, content) ==
    IF fmode \notin {"r", "w"} THEN Refused("ValueError")
    ELSE LET t == CpioInit(fmode, content = "gz", "GzipFile", TRUE)
         IN  IF t.ok THEN [t EXCEPT !.ext = FALSE] ELSE t

\* a supplied stream is wrapped in _BZ2Proxy, a name opened as bz2.BZ2File
bz2open(fmode, src, content) ==
    IF fmode \notin {"r", "w"} THEN Refused("ValueError")
    ELSE LET t == CpioInit(fmode, content = "bz2",
                           IF Supplied(src) THEN "_BZ2Proxy" ELSE "BZ2File",
                           TRUE)
         IN  IF t.ok THEN [t EXCEPT !.ext = FALSE] ELSE t

\* "passing fileobj not implemented for LZMA"; an LZMAError of the first
\* read is not an IOError and is not turned into ReadError
xzopen(fmode, src, content) ==
    IF fmode \notin {"r", "w"} THEN Refused("ValueError")
    ELSE IF Supplied(src) THEN Refused("CompressionError")
    ELSE IF fmode = "r" /\ content # "xz" THEN Refused("LZMAError")
    ELSE [CpioInit(fmode, TRUE, "LZMAFile", TRUE) EXCEPT !.ext = FALSE]

OPEN_METH(comptype, fmode, src, content) ==
    CASE comptype = "cpio" -> cpioopen(fmode, src, content)
      [] comptype = "gz"   -> gzopen(fmode, src, content)
      [] comptype = "bz2"  -> bz2open(fmode, src, content)
      [] comptype = "xz"   -> xzopen(fmode, src, content)

\* mode "r" / "r:*": the first open method that does not raise ReadError or
\* CompressionError, tried in the order cpio, gz, bz2, xz
RECURSIVE Transparent(_, _, _)
Transparent(i, src, content) ==
    IF i > Len(ClComptypes) THEN Refused("ReadError")
    ELSE LET t == OPEN_METH(ClComptypes[i], "r", src, content)
         IN  IF t.err \in {"ReadError", "CompressionError"}
             THEN Transparent(i + 1, src, content)
             ELSE t

\* what the first read of a _Stream raises on data of another kind
StreamRaises(comptype) ==
    CASE comptype = "bz2" -> "OSError"
      [] comptype = "xz"  -> "LZMAError"
      [] OTHER            -> "ReadError"

\* mode "x|y": CpioFile(name, fmode, _Stream(...)); the _Stream remembers
\* whether the fileobj was supplied, then "t._extfileobj = False"
StreamOpen(fmode, comp, src, content) ==
    LET detected == IF comp = "*" THEN content
                    ELSE IF comp = "" THEN "cpio" ELSE comp
    IN  IF fmode = "r" /\ detected # content THEN Refused(StreamRaises(detected))
        ELSE [ok |-> TRUE, wrapper |-> "_Stream", ext |-> FALSE,
              sext |-> Supplied(src), err |-> "none"]

\* CpioFile.open
Open(m, src, content) ==
    IF m.fmode = "r" /\ (m.sep = "" \/ (m.sep = ":" /\ m.comp = "*"))
    THEN Transparent(1, src, content)
    ELSE IF m.sep = ":"
    THEN OPEN_METH(IF m.comp = "" THEN "cpio" ELSE m.comp, m.fmode, src, content)
    ELSE IF m.sep = "|" THEN StreamOpen(m.fmode, m.comp, src, content)
    ELSE cpioopen(m.fmode, src, content)

\* fileobj.close() of the object the archive reads or writes through: does
\* it close the stream underneath?
\*   a file the archive opened itself: yes;
\*   GzipFile: only a file it opened itself from the name;
\*   _CMPProxy.close: "if not isinstance(self.fileobj, io.BytesIO)";
\*   _Stream.close: "if not self._extfileobj"
WrapperCloses(wrapper, src, sext) ==
    CASE wrapper = "GzipFile"  -> ~Supplied(src)
      [] wrapper = "_BZ2Proxy" -> src # "BytesIO"
      [] wrapper = "_Stream"   -> ~sext
      [] OTHER                 -> TRUE

ClIdle ==
    [phase |-> "idle", mode |-> [fmode |-> "r", sep |-> "", comp |-> ""],
     src |-> "name", content |-> "cpio", wrapper |-> "none", ext |-> FALSE,
     sext |-> FALSE, stream |-> "open", err |-> "none", closes |-> 0]

\* before the call of open: a mode, a source and the data behind it (a
\* stream to be written starts empty)
ClStart ==
    {[ClIdle EXCEPT !.phase = "start", !.mode = m, !.src = s, !.content = c] :
        m \in {x \in ClModes : ClDocumented(x)}, s \in ClSources,
        c \in ClContents}

ClOpen ==
    /\ cl.phase = "start"
    /\ LET t == Open(cl.mode, cl.src, cl.content)
       IN  cl' = [cl EXCEPT !.phase = IF t.ok THEN "open" ELSE "refused",
                            !.wrapper = t.wrapper, !.ext = t.ext,
                            !.sext = t.sext, !.err = t.err]
    /\ UNCHANGED OtherThanCl

\* CpioFile.close: "if not self._extfileobj: self.fileobj.close()"
ClClose ==
    /\ cl.phase = "open"
    /\ cl' = [cl EXCEPT
                !.phase = "closed", !.closes = 1,
                !.stream = IF ~cl.ext /\ WrapperCloses(cl.wrapper, cl.src, cl.sext)
                           THEN "closed" ELSE @]
    /\ UNCHANGED OtherThanCl

\* CpioFile.close on a closed archive: "if self.closed: return"
ClCloseAgain ==
    /\ cl.phase = "closed" /\ cl.closes < MaxCloses
    /\ cl' = [cl EXCEPT !.closes = @ + 1]
    /\ UNCHANGED OtherThanCl

NextClose == ClOpen \/ ClClose \/ ClCloseAgain

(***************************************************************************)
(* C14 -- a supplied stream is left open, a stream opened from a name is   *)
(* closed.                                                                 *)
(***************************************************************************)
\* C14: for every open mode and compression scheme, after close() of an
\* archive opened on a stream of the caller that stream is still open, and
\* after close() of an archive opened from a file name the file the
\* archive opened is closed.
CexC14 ==
    cl.phase = "closed" =>
        IF Supplied(cl.src) THEN cl.stream = "open" ELSE cl.stream = "closed"

\* the one way a supplied stream gets closed: bzip2 through _BZ2Proxy on a
\* stream that is not an io.BytesIO
C14OnlyBz2Proxy ==
    cl.phase = "closed" =>
        /\ ~Supplied(cl.src) => cl.stream = "closed"
        /\ Supplied(cl.src) =>
              (cl.stream = "closed" <=>
                  cl.wrapper = "_BZ2Proxy" /\ cl.src = "file")

(***************************************************************************)
(* unpack (tools/unpack.py, utils/rockchip.py) followed by pack           *)
(* (tools/pack.py) in one work directory.                                  *)
(*                                                                         *)
(* An image file is its leading bytes (magic and, for KRNL, the size      *)
(* field), then the ramdisk, the checksum and the padding.  A gzip        *)
(* ramdisk is kept by the fields of its header (mtime, file name, OS      *)
(* byte) and the archive members it compresses; its checksum is kept as   *)
(* the ramdisk it was computed over.  Two images are the same bytes when  *)
(* these fields agree.                                                     *)
(***************************************************************************)
NoRd == [kind |-> "absent", mtime |-> 0, fname |-> <<>>, os |-> 0, members |-> <<>>]
NoImg == [exists |-> FALSE, lead |-> <<>>, rd |-> NoRd, crc |-> NoRd, padlen |-> 0, cut |-> 0]
NoInfo ==
    [written |-> FALSE, boot_magic |-> "", image_size |-> 0,
     ramdisk_compression |-> "", ramdisk_files |-> <<>>]

\* b"ANDROID!"
ANDROID == <<65, 78, 68, 82, 79, 73, 68, 33>>
\* the name gzip.GzipFile stores for work_dir/ramdisk.patched
GzFname == <<114, 97, 109, 100, 105, 115, 107, 46, 112, 97, 116, 99, 104, 101, 100>>

RECURSIVE ArchiveLen(_)
\* bytes of the members' headers, names and payloads, each padded to a word
ArchiveLen(ms) ==
    IF ms = <<>> THEN 0
    ELSE LET h == 110 + ms[1].namesize + 1
             d == Len(ms[1].data)
         IN h + Pad4(h) + d + Pad4(d) + ArchiveLen(Tail(ms))

\* bytes of a gzip ramdisk: 10-byte header, the NUL-terminated file name if
\* any, the compressed archive with its trailer member (taken at the
\* archive's own length), CRC32 and ISIZE
RdLen(rd) ==
    IF rd.kind = "absent" THEN 0
    ELSE IF rd.kind = "gzip"
    THEN 10 + (IF rd.fname = <<>> THEN 0 ELSE Len(rd.fname) + 1)
            + ArchiveLen(rd.members) + 124 + 8
    ELSE ArchiveLen(rd.members) + 124

ImgLen(img) ==
    Len(img.lead)
    + (IF img.rd.kind = "absent" THEN 0 ELSE RdLen(img.rd) + 4 + img.padlen)
    - img.cut

\* bytes.decode() succeeds; the inputs' bytes >= 0x80 are not valid UTF-8
Decodes(b) == \A i \in 1..Len(b) : b[i] < 128

\* member of the original archive
UpMember(n, k, i, md, g, d) ==
    [name |-> n, namesize |-> k, ino |-> i, mode |-> md, uid |-> 0, gid |-> g,
     mtime |-> 1230768000, data |-> d]

\* archives: a sticky directory and a setuid file, with the inode numbers
\* of the machine that built the image
UpArchives ==
    {<<UpMember("etc", 3, i, S_IFDIR + dm, 0, <<>>),
       UpMember("init", 4, i + 1, S_IFREG + fm, 2000, <<35, 33>>)>> :
          i \in {1, 11}, dm \in {493, 1023}, fm \in {488, 2541}}

\* gzip ramdisks as image builders write them
UpRamdisks ==
    {[kind |-> "gzip", mtime |-> t, fname |-> f, os |-> o, members |-> a] :
        t \in {0, 1600000000}, f \in {<<>>, GzFname}, o \in {3, 255},
        a \in UpArchives}

\* well-formed KRNL images
KrnlImage(rd, p) ==
    [exists |-> TRUE, lead |-> KRNL \o PackLE32(ToWord(RdLen(rd))), rd |-> rd,
     crc |-> rd, padlen |-> p, cut |-> 0]
UpKrnlImages == {KrnlImage(rd, p) : rd \in UpRamdisks, p \in {0, 40}}

\* leading bytes that are neither magic: empty, cut short, one byte off,
\* ELF, bytes that are no text, a bare gzip file
UpOneRamdisk ==
    [kind |-> "gzip", mtime |-> 0, fname |-> <<>>, os |-> 3,
     members |-> <<UpMember("init", 4, 1, S_IFREG + 488, 0, <<35, 33>>)>>]
UpOtherLeads ==
    {<<>>, <<75, 82, 78>>, <<75, 82, 78, 88>>,
     <<75, 82, 78, 88>> \o PackLE32(ToWord(RdLen(UpOneRamdisk))),
     <<107, 114, 110, 108>> \o PackLE32(ToWord(RdLen(UpOneRamdisk))),
     <<65, 78, 68, 82, 79, 73, 68, 63>>, <<127, 69, 76, 70, 2, 1, 1, 0>>,
     <<255, 254, 0, 0, 0, 0, 0, 0>>, <<31, 139, 8, 0, 0, 0, 0, 0>>}
UpOtherImages ==
    {[exists |-> TRUE, lead |-> l,
      rd |-> IF Len(l) = 8 THEN r ELSE NoRd,
      crc |-> IF Len(l) = 8 THEN r ELSE NoRd, padlen |-> 0, cut |-> 0] :
        l \in UpOtherLeads, r \in {NoRd, UpOneRamdisk}}
\* KRNL images a builder would not write: a checksum field computed over
\* nothing or over another ramdisk, an uncompressed archive as payload,
\* the magic and nothing else
UpOddKrnlImages ==
    {[KrnlImage(UpOneRamdisk, 0) EXCEPT !.crc = c] :
        c \in {NoRd, [UpOneRamdisk EXCEPT !.mtime = 1]}}
    \cup {KrnlImage([UpOneRamdisk EXCEPT !.kind = "cpio"], p) : p \in {0, 40}}
    \cup {[exists |-> TRUE, lead |-> KRNL, rd |-> NoRd, crc |-> NoRd, padlen |-> 0, cut |-> 0]}
\* Android images: their magic, and the ramdisk the external unpacker
\* writes out, stored uncompressed or under one of the three codecs
UpAndroidImages ==
    {[exists |-> TRUE, lead |-> ANDROID, rd |-> r, crc |-> NoRd, padlen |-> 0, cut |-> 0] :
        r \in {NoRd} \cup {[UpOneRamdisk EXCEPT !.kind = k] :
                                k \in {"cpio", "gzip", "bzip2", "xz"}}}

\* KRNL images that end early: without the checksum field, and with the
\* last byte or the last eight bytes of the ramdisk missing as well
UpCutImages == {[KrnlImage(UpOneRamdisk, 0) EXCEPT !.cut = c] : c \in {4, 5, 12}}

UpIdle ==
    [img |-> NoImg, pc |-> "idle", err |-> "", ramdisk |-> NoRd,
     ramdisk_len |-> 0, info |-> NoInfo, tree |-> <<>>, patched |-> NoRd,
     out |-> NoImg]
UpStart ==
    {[UpIdle EXCEPT !.img = g, !.pc = "unpack"] :
        g \in UpKrnlImages \cup UpOddKrnlImages \cup UpOtherImages
                 \cup UpAndroidImages \cup UpCutImages}

UpFail(e) == [up EXCEPT !.pc = "failed", !.err = e]

\* try: info = unpack_android_bootimg(...)  except ValueError: fall through.
\* The Android unpacker reads eight bytes of magic; it raises ValueError
\* for an image that is not an Android boot image; on fewer than eight
\* bytes it raises that or a struct.error, which is not caught.
UpAndroid ==
    /\ up.pc = "unpack"
    /\ \/ /\ Len(up.img.lead) < 8
          /\ up' \in {UpFail("struct.error"), [up EXCEPT !.pc = "krnl"]}
       \/ /\ Len(up.img.lead) >= 8
          /\ up' = IF up.img.lead = ANDROID THEN [up EXCEPT !.pc = "android"]
                   ELSE [up EXCEPT !.pc = "krnl"]
    /\ UNCHANGED OtherThanUp

\* info = unpack_android_bootimg(boot_img, out_dir): the external unpacker
\* writes the image's ramdisk to out_dir/ramdisk
UpAndroidRamdisk ==
    /\ up.pc = "android"
    /\ up.img.rd.kind # "absent"
    /\ up' = [up EXCEPT !.ramdisk = up.img.rd,
                        !.ramdisk_len = RdLen(up.img.rd),
                        !.info = [@ EXCEPT !.boot_magic = "ANDROID!"],
                        !.pc = "archive"]
    /\ UNCHANGED OtherThanUp

\* check_krnl_initrd_img: 'KRNL' at 0 and 1F 8B at 8, or ValueError
check_krnl_lenient(img) == "ok"
check_krnl_magic_only(img) ==
    IF Len(img.lead) < 4 THEN "struct.error"
    ELSE IF ~Decodes(SubSeq(img.lead, 1, 4)) THEN "UnicodeDecodeError"
    ELSE IF SubSeq(img.lead, 1, 4) = KRNL THEN "ok"
    ELSE "ValueError"
check_krnl_initrd_img(img) ==
    IF Len(img.lead) < 4 THEN "struct.error"
    ELSE IF ~Decodes(SubSeq(img.lead, 1, 4)) THEN "UnicodeDecodeError"
    ELSE IF SubSeq(img.lead, 1, 4) = KRNL
         THEN IF Len(img.lead) < 8 \/ img.rd.kind = "absent" THEN "struct.error"
              ELSE IF img.rd.kind = "gzip" THEN "ok"
              ELSE "ValueError"
    ELSE "ValueError"

UpCheckKrnl ==
    /\ up.pc = "krnl"
    /\ LET r == check_krnl_initrd_img(up.img)
       IN up' = IF r = "ok" THEN [up EXCEPT !.pc = "copy"] ELSE UpFail(r)
    /\ UNCHANGED OtherThanUp

\* the check returns without raising
UpCheckKrnlAccepts == UpCheckKrnl /\ up'.pc = "copy"

\* f.read(size) at offset: size bytes, or those the file has left
ReadLen(size, filelen, offset) == Min(size, Max(0, filelen - offset))

\* size = unpack('<I', read(4)); seek(8); ramdisk <- read(size).  The
\* images taken here carry the length of their ramdisk in the size field.
UpCopyRamdisk ==
    /\ up.pc = "copy"
    /\ UnpackLE32(SubSeq(up.img.lead, 5, 8)) = ToWord(RdLen(up.img.rd))
    /\ up' = [up EXCEPT !.ramdisk = up.img.rd,
                        !.ramdisk_len = ReadLen(RdLen(up.img.rd), ImgLen(up.img), 8),
                        !.info = [@ EXCEPT !.boot_magic = "KRNL"],
                        !.pc = "archive"]
    /\ UNCHANGED OtherThanUp

\* cpio_info_to_dict: name -> uid, gid, oct(mode & 0o777)[2:], mtime
cpio_info_to_dict(ci) ==
    [uid |-> ci.uid, gid |-> ci.gid, mode |-> OctStr(ci.mode % 512),
     mtime |-> ci.mtime]

\* inode numbers the work directory's filesystem may hand out
UpFsInodes == {1, 2, 12}

\* extractall: the member as a file of the work tree, under a fresh inode
Extracted(m, ino) ==
    [name |-> m.name, namesize |-> m.namesize, st_ino |-> ino,
     st_mode |-> m.mode, st_uid |-> m.uid, st_gid |-> m.gid,
     st_mtime |-> m.mtime, data |-> m.data]

\* the compression type of CpioFile.open for the bytes of a ramdisk
Comptype(kind) ==
    CASE kind = "gzip" -> "gz" [] kind = "bzip2" -> "bz2" [] kind = "xz" -> "xz"
      [] OTHER -> "cpio"

\* "gzip" if isinstance(f.fileobj, gzip.GzipFile) else "none", f being
\* cpiofile.open(ramdisk, mode="r")
RecordedCompression(kind) ==
    IF Transparent(1, "name", Comptype(kind)).wrapper = "GzipFile" THEN "gzip"
    ELSE "none"

\* open_mode = "w:gz" if ramdisk_compression == "gzip" else "w"
open_mode(ramdisk_compression) ==
    IF ramdisk_compression = "gzip" THEN "w:gz" ELSE "w"

\* unpack.py 32-43: image_size, the archive's compression and attribute
\* table, extraction, info.json
UpArchive ==
    /\ up.pc = "archive"
    /\ up.ramdisk.kind # "absent"
    /\ \E inos \in [1..Len(up.ramdisk.members) -> UpFsInodes] :
          /\ \A i, j \in DOMAIN inos : i # j => inos[i] # inos[j]
          /\ up' = [up EXCEPT
                      !.info = [@ EXCEPT
                          !.written = TRUE,
                          !.image_size = ImgLen(up.img),
                          !.ramdisk_compression =
                              RecordedCompression(up.ramdisk.kind),
                          !.ramdisk_files =
                              [n \in {up.ramdisk.members[i].name :
                                          i \in DOMAIN up.ramdisk.members} |->
                                  cpio_info_to_dict(
                                      CHOOSE m \in {up.ramdisk.members[i] :
                                                  i \in DOMAIN up.ramdisk.members} :
                                          m.name = n)]],
                      !.tree = [i \in DOMAIN up.ramdisk.members |->
                                   Extracted(up.ramdisk.members[i], inos[i])],
                      !.pc = "unpacked"]
    /\ UNCHANGED OtherThanUp

\* seconds since the epoch at the time pack runs
UpClock == {1600000000, 1700000000}

\* getcpioinfo and the attribute override of pack's loop, for one file
PackedMember(file, table) ==
    LET ci == [name |-> file.name, namesize |-> file.namesize,
               ino |-> file.st_ino, mode |-> file.st_mode, uid |-> file.st_uid,
               gid |-> file.st_gid, mtime |-> file.st_mtime,
               data |-> IF isreg(file.st_mode) THEN file.data ELSE <<>>]
    IN ApplyAttr(ci, DictGet(table, file.name,
                             IF isdir(ci.mode) THEN default_dir_attr
                             ELSE default_file_attr))

\* pack.py 21-56 with no extra table: the work tree in glob order, written
\* through gzip.GzipFile to ramdisk.patched
UpPackRamdisk ==
    /\ up.pc = "unpacked"
    /\ up.info.boot_magic \in {"KRNL", "ANDROID!"}
    /\ \E now \in UpClock, order \in [DOMAIN up.tree -> DOMAIN up.tree] :
          /\ \A i, j \in DOMAIN order : i # j => order[i] # order[j]
          /\ up' = [up EXCEPT
                !.patched =
                    [kind |-> IF open_mode(up.info.ramdisk_compression) = "w:gz"
                              THEN "gzip" ELSE "cpio",
                     mtime |-> now, fname |-> GzFname, os |-> 255,
                     members |-> [i \in DOMAIN up.tree |->
                                     PackedMember(up.tree[order[i]],
                                                  up.info.ramdisk_files)]],
                !.pc = "container"]
    /\ UNCHANGED OtherThanUp

\* pack_rockchip_krnl_bootimg and pad: KRNL, size, ramdisk.patched (it
\* exists), checksum, NULs up to image_size
UpPackContainer ==
    /\ up.pc = "container"
    /\ up.info.boot_magic = "KRNL"
    /\ LET r == up.patched
           body == 8 + RdLen(r) + 4
       IN up' = [up EXCEPT
                    !.out = [exists |-> TRUE,
                             lead |-> KRNL \o PackLE32(ToWord(RdLen(r))),
                             rd |-> r, crc |-> r,
                             padlen |-> Max(0, up.info.image_size - body),
                             cut |-> 0],
                    !.pc = "packed"]
    /\ UNCHANGED OtherThanUp

\* pack_android_bootimg and pad: the external packer frames
\* ramdisk.patched, NULs up to image_size
UpPackAndroid ==
    /\ up.pc = "container"
    /\ up.info.boot_magic = "ANDROID!"
    /\ LET r == up.patched
           body == 8 + RdLen(r) + 4
       IN up' = [up EXCEPT
                    !.out = [exists |-> TRUE, lead |-> ANDROID, rd |-> r,
                             crc |-> NoRd,
                             padlen |-> Max(0, up.info.image_size - body),
                             cut |-> 0],
                    !.pc = "packed"]
    /\ UNCHANGED OtherThanUp

NextUnpackPack ==
    UpAndroid \/ UpAndroidRamdisk \/ UpCheckKrnl \/ UpCopyRamdisk \/ UpArchive
      \/ UpPackRamdisk \/ UpPackContainer \/ UpPackAndroid

(***************************************************************************)
(* C19 -- the compression scheme of the ramdisk through unpack and pack.   *)
(***************************************************************************)
\* C19: whichever scheme the ramdisk is stored under (none, gzip, bzip2,
\* xz), the descriptor unpack writes records that scheme ("none" for an
\* uncompressed ramdisk and for no other, "gzip" for a gzip ramdisk and
\* for no other), and the ramdisk pack writes is encoded with the scheme
\* of the descriptor, hence with the scheme of the original.
CexC19 ==
    /\ up.info.written =>
          /\ up.info.ramdisk_compression = "none" <=> up.ramdisk.kind = "cpio"
          /\ up.info.ramdisk_compression = "gzip" <=> up.ramdisk.kind = "gzip"
    /\ up.pc \in {"container", "packed"} => up.patched.kind = up.ramdisk.kind

\* what the code does: gzip is recorded as "gzip", everything else as
\* "none", and pack writes gzip for "gzip" and an uncompressed archive
\* otherwise
C19GzipOrNone ==
    /\ up.info.written =>
          up.info.ramdisk_compression =
              IF up.ramdisk.kind = "gzip" THEN "gzip" ELSE "none"
    /\ up.pc \in {"container", "packed"} =>
          up.patched.kind =
              IF up.info.ramdisk_compression = "gzip" THEN "gzip" ELSE "cpio"


(***************************************************************************)
(* C10                                                                     *)
(***************************************************************************)
C10Neither ==
    /\ ~StartsWith(up.img.lead, <<75, 82, 78, 76>>)
    /\ ~StartsWith(up.img.lead, <<65, 78, 68, 82, 79, 73, 68, 33>>)

C16Accepted == up.pc \in {"copy", "archive", "unpacked", "container", "packed"}
C16GzipAt8 == Len(up.img.lead) >= 8 /\ up.img.rd.kind = "gzip"

CexC1 ==
    up.pc = "packed" /\ up.img \in UpKrnlImages => up.out = up.img

\* what the round trip does keep: every member's name, mode, uid, gid,
\* mtime and payload
UpRoundTripKeepsAttributes ==
    up.pc = "packed" =>
        {[m EXCEPT !.ino = 0] : m \in {up.out.rd.members[i] :
                                          i \in DOMAIN up.out.rd.members}}
          = {[m EXCEPT !.ino = 0] : m \in {up.img.rd.members[i] :
                                          i \in DOMAIN up.img.rd.members}}

\* the identity does come out when clock, file name, OS byte, inode numbers
\* and directory order all happen to agree with the original's
UpRoundTripIdentical ==
    up.pc = "packed" /\ up.img \in UpKrnlImages /\ up.out = up.img

(***************************************************************************)
(* repack (tools/repack.py): unpack, the patches in sorted order, the      *)
(* replacement files, pack.  What a patch file does when applied, and      *)
(* whether unpack and pack succeed, is given with the run.                 *)
(***************************************************************************)
\* p.apply(...) returned True / returned False / fromfile returned False
\* for a file that is no patch (p.apply then raises AttributeError) /
\* apply raised
RpOutcomes == {"applies", "fails", "unparsable", "raises"}
RpPatchLists == UNION {[1..n -> RpOutcomes] : n \in 0..MaxPatches}

RpIdle ==
    [patches |-> <<>>, nfiles |-> 0, unpack_ok |-> TRUE, pack_ok |-> TRUE,
     pc |-> "idle", i |-> 0, applied |-> <<>>, failedAt |-> 0, copied |-> 0,
     packed |-> FALSE, out_img |-> FALSE, exit |-> 0]
RpStart ==
    {[patches |-> ps, nfiles |-> n, unpack_ok |-> u, pack_ok |-> k,
      pc |-> "unpack", i |-> 1, applied |-> <<>>, failedAt |-> 0, copied |-> 0,
      packed |-> FALSE, out_img |-> FALSE, exit |-> 0] :
        ps \in RpPatchLists, n \in 0..MaxCopies, u \in BOOLEAN, k \in BOOLEAN}

\* an exception nobody catches, or sys.exit(1): the interpreter ends with
\* status 1
RpExit1(r) == [r EXCEPT !.pc = "exit", !.exit = 1]
RpPatchFailedIgnored(r) == [r EXCEPT !.i = @ + 1]
\* print("Patch failed"); sys.exit(1)
RpPatchFailed(r) == RpExit1(r)

\* unpack(boot_img, work_dir)
RpUnpack ==
    /\ rp.pc = "unpack"
    /\ rp' = IF rp.unpack_ok THEN [rp EXCEPT !.pc = "patch"] ELSE RpExit1(rp)
    /\ UNCHANGED OtherThanRp

\* one round of "for patch_file in patch_files"
RpPatch ==
    /\ rp.pc = "patch"
    /\ rp.i <= Len(rp.patches)
    /\ LET o == rp.patches[rp.i]
       IN rp' = CASE o = "applies" ->
                       [rp EXCEPT !.applied = Append(@, rp.i), !.i = @ + 1]
                  [] o = "fails" ->
                       RpPatchFailed([rp EXCEPT !.applied = Append(@, rp.i),
                                                !.failedAt = rp.i])
                  [] OTHER ->
                       RpExit1([rp EXCEPT !.applied = Append(@, rp.i),
                                          !.failedAt = rp.i])
    /\ UNCHANGED OtherThanRp

\* the patch loop is over
RpPatchesDone ==
    /\ rp.pc = "patch"
    /\ rp.i > Len(rp.patches)
    /\ rp' = [rp EXCEPT !.pc = "copy"]
    /\ UNCHANGED OtherThanRp

\* one round of "for in_file in files_to_copy": copyfile, copymode
RpCopy ==
    /\ rp.pc = "copy"
    /\ rp.copied < rp.nfiles
    /\ rp' = [rp EXCEPT !.copied = @ + 1]
    /\ UNCHANGED OtherThanRp

\* extra_ramdisk_files.json if it exists, then pack(out_img, work_dir, ...)
RpPack ==
    /\ rp.pc = "copy"
    /\ rp.copied = rp.nfiles
    /\ rp' = IF rp.pack_ok
             THEN [rp EXCEPT !.packed = TRUE, !.out_img = TRUE, !.pc = "exit"]
             ELSE RpExit1([rp EXCEPT !.packed = TRUE])
    /\ UNCHANGED OtherThanRp

NextRepack == RpUnpack \/ RpPatch \/ RpPatchesDone \/ RpCopy \/ RpPack

(***************************************************************************)
(* C11                                                                     *)
(***************************************************************************)
\* C11: once applying a patch has failed, no later patch is applied, no
\* replacement file is copied, pack is not invoked and the output image is
\* not written, and the run has ended with a nonzero exit status; nothing
\* changes afterwards.
C11State ==
    rp.failedAt # 0 =>
        /\ rp.patches[rp.failedAt] # "applies"
        /\ rp.applied = [k \in 1..rp.failedAt |-> k]
        /\ rp.copied = 0
        /\ ~rp.packed /\ ~rp.out_img
        /\ rp.pc = "exit" /\ rp.exit # 0
C11Step == rp.failedAt # 0 => rp' = rp
ThmC11 == [](C11State) /\ [][C11Step]_vars

\* the second of three patches fails, with files waiting to be copied
WitC11 ==
    /\ rp.failedAt = 2 /\ Len(rp.patches) = 3 /\ rp.patches[3] = "applies"
    /\ rp.patches[2] = "fails"
    /\ rp.nfiles > 0 /\ rp.pack_ok
    /\ rp.pc = "exit" /\ rp.exit = 1

(***************************************************************************)
(* A CpioFile opened for reading (mode "r") on an uncompressed stream.     *)
(* The stream is a sequence of records, each with the bytes it occupies:   *)
(* a member (header, name, payload or link target), the trailer record,    *)
(* or a block whose header does not decode (frombuf raises ValueError).    *)
(* cr.offset is the byte offset the next header is read at.                *)
(* cr.exhausted is a history flag: the trailer record has been read.       *)
(***************************************************************************)
HEADERSIZE_SVR4 == 110

\* a byte count taken as it is, not rounded up
WordUnrounded(count) == count

\* _word(count): round up to a multiple of WORDSIZE
Word(count) ==
    IF count % WORDSIZE # 0 THEN ((count \div WORDSIZE) + 1) * WORDSIZE
    ELSE count

CrFile(n, sz) == [kind |-> "file", name |-> n, namesize |-> 2, size |-> sz]
CrLink(n, sz) == [kind |-> "link", name |-> n, namesize |-> 2, size |-> sz]
CrTrailer == [kind |-> "trailer", name |-> "TRAILER!!!", namesize |-> 11, size |-> 0]
CrBad == [kind |-> "bad", name |-> "", namesize |-> 0, size |-> 0]

\* bytes a record occupies in the stream
RecLen(r) ==
    CASE r.kind = "bad" -> HEADERSIZE_SVR4
      [] r.kind = "trailer" -> Word(HEADERSIZE_SVR4 + r.namesize)
      [] OTHER -> Word(HEADERSIZE_SVR4 + r.namesize) + Word(r.size)

RECURSIVE RecStart(_, _)
\* byte offset of the k-th record
RecStart(stream, k) ==
    IF k = 1 THEN 0 ELSE RecStart(stream, k - 1) + RecLen(stream[k - 1])

\* index of the record that begins at byte offset off, 0 at end of file
RecAt(stream, off) ==
    IF \E k \in DOMAIN stream : RecStart(stream, k) = off
    THEN CHOOSE k \in DOMAIN stream : RecStart(stream, k) = off
    ELSE 0

NoMember ==
    [kind |-> "none", name |-> "", size |-> 0, offset |-> 0, offset_data |-> 0,
     linksize |-> 0]

\* CpioFile.__next__ on the archive c: the archive afterwards, the value
\* returned (NoMember for None) and the error raised, if any
Next1(c) ==
    IF c.firstmember # NoMember
    THEN [c |-> [c EXCEPT !.firstmember = NoMember], val |-> c.firstmember,
          err |-> ""]
    ELSE LET k == RecAt(c.stream, c.offset)
         IN IF k = 0 THEN [c |-> c, val |-> NoMember, err |-> ""]
            ELSE LET r == c.stream[k]
                     total_header_len == Word(HEADERSIZE_SVR4 + r.namesize)
                 IN IF r.kind = "bad"
                    THEN [c |-> c, val |-> NoMember,
                          err |-> IF c.offset = 0 THEN "ReadError" ELSE ""]
                    ELSE IF r.kind = "trailer"
                    THEN [c |-> [c EXCEPT !.offset = @ + total_header_len,
                                          !.exhausted = TRUE],
                          val |-> NoMember, err |-> ""]
                    ELSE LET hdr_end == c.offset + total_header_len
                             m == [kind |-> r.kind, name |-> r.name,
                                   size |-> IF r.kind = "link" THEN 0 ELSE r.size,
                                   offset |-> c.offset,
                                   offset_data |->
                                       IF r.kind = "link"
                                       THEN hdr_end + Word(r.size) ELSE hdr_end,
                                   linksize |->
                                       IF r.kind = "link" THEN r.size ELSE 0]
                         IN [c |-> [c EXCEPT !.offset = hdr_end + Word(r.size),
                                             !.members = Append(@, m)],
                             val |-> m, err |-> ""]

LoadOneStep(c) == [Next1(c).c EXCEPT !.loaded = TRUE]
RECURSIVE Load(_)
\* _load: next(self) until it returns None, then _loaded = True
Load(c) ==
    LET r == Next1(c)
    IN IF r.err # "" THEN [r.c EXCEPT !.err = r.err, !.pc = "failed"]
       ELSE IF r.val = NoMember THEN [r.c EXCEPT !.loaded = TRUE]
       ELSE Load(r.c)

\* _getmember: from bottom to top of getmembers()
RECURSIVE FindFromFirst(_, _, _)
FindFromFirst(members, name, i) ==
    IF i > Len(members) THEN NoMember
    ELSE IF members[i].name = name THEN members[i]
    ELSE FindFromFirst(members, name, i + 1)
FindFirst(members, name, i) == FindFromFirst(members, name, 1)
RECURSIVE FindFromLast(_, _, _)
FindFromLast(members, name, i) ==
    IF i < 1 THEN NoMember
    ELSE IF members[i].name = name THEN members[i]
    ELSE FindFromLast(members, name, i - 1)

\* streams: files "a" (no payload) and "b", a symbolic link "a", the trailer
\* record, a block that does not decode
CrRecords == {CrFile("a", 0), CrFile("b", 5), CrLink("a", 3), CrTrailer, CrBad}
CrStreams == UNION {[1..n -> CrRecords] : n \in 0..MaxStream}
CrNames == {"a", "b", "c"}

NoRet == [op |-> "", name |-> "", it |-> 0, val |-> NoMember, list |-> <<>>, err |-> ""]
CrIdle ==
    [stream |-> <<>>, pc |-> "idle", err |-> "", offset |-> 0, members |-> <<>>,
     firstmember |-> NoMember, loaded |-> FALSE, exhausted |-> FALSE,
     iters |-> <<>>, ret |-> NoRet]
CrStart ==
    {[CrIdle EXCEPT !.stream = s, !.pc = "init"] : s \in CrStreams}

\* CpioFile.__init__ in mode "r": self.firstmember = next(self)
CrOpen ==
    /\ cr.pc = "init"
    /\ LET r == Next1(cr)
       IN cr' = IF r.err # "" THEN [r.c EXCEPT !.err = r.err, !.pc = "failed"]
                ELSE [r.c EXCEPT !.firstmember = r.val, !.pc = "open"]
    /\ UNCHANGED OtherThanCr

\* next(archive)
CrNext ==
    /\ cr.pc = "open"
    /\ LET r == Next1(cr)
       IN cr' = IF r.err # "" THEN [r.c EXCEPT !.err = r.err, !.pc = "failed"]
                ELSE [r.c EXCEPT !.ret = [NoRet EXCEPT !.op = "next",
                                                       !.val = r.val]]
    /\ UNCHANGED OtherThanCr

\* getmembers()
getmembers(c) == IF c.loaded THEN c ELSE Load(c)
CrGetMembers ==
    /\ cr.pc = "open"
    /\ LET c == getmembers(cr)
       IN cr' = [c EXCEPT !.ret = [NoRet EXCEPT !.op = "getmembers",
                                               !.list = c.members]]
    /\ UNCHANGED OtherThanCr

\* getmember(name)
CrGetMember ==
    /\ cr.pc = "open"
    /\ \E name \in CrNames :
          LET c == getmembers(cr)
              m == FindFromLast(c.members, name, Len(c.members))
          IN cr' = [c EXCEPT !.ret = [NoRet EXCEPT
                                         !.op = "getmember", !.val = m,
                                         !.name = name,
                                         !.err = IF m = NoMember THEN "KeyError"
                                                 ELSE ""]]
    /\ UNCHANGED OtherThanCr

\* iter(archive): iter(self.members) once loaded, else CpioIter(self)
CrIter ==
    /\ cr.pc = "open"
    /\ Len(cr.iters) < MaxIters
    /\ cr' = [cr EXCEPT
                 !.iters = Append(@, [kind |-> IF cr.loaded THEN "list"
                                               ELSE "CpioIter",
                                      index |-> 0, done |-> FALSE]),
                 !.ret = [NoRet EXCEPT !.op = "iter"]]
    /\ UNCHANGED OtherThanCr

\* next(it) on the i-th iterator: list iterator, or CpioIter.__next__
CrIterNext ==
    /\ cr.pc = "open"
    /\ \E i \in DOMAIN cr.iters :
          LET it == cr.iters[i]
              fromList ==
                  IF ~it.done /\ it.index < Len(cr.members)
                  THEN [cr EXCEPT !.iters[i].index = @ + 1,
                                  !.ret = [NoRet EXCEPT
                                              !.op = "iternext", !.it = i,
                                              !.val = cr.members[it.index + 1]]]
                  ELSE [cr EXCEPT !.iters[i].done = (it.kind = "list"),
                                  !.ret = [NoRet EXCEPT !.op = "iternext",
                                                        !.it = i,
                                                        !.err = "StopIteration"]]
              r == Next1(cr)
              fromArchive ==
                  IF r.val = NoMember
                  THEN [r.c EXCEPT !.loaded = TRUE,
                                   !.ret = [NoRet EXCEPT !.op = "iternext",
                                                         !.it = i,
                                                         !.err = "StopIteration"]]
                  ELSE [r.c EXCEPT !.iters[i].index = @ + 1,
                                   !.ret = [NoRet EXCEPT !.op = "iternext",
                                                         !.it = i,
                                                         !.val = r.val]]
          IN cr' = IF it.kind = "list" \/ cr.loaded THEN fromList
                   ELSE fromArchive
    /\ UNCHANGED OtherThanCr

NextRead == CrOpen \/ CrNext \/ CrGetMembers \/ CrGetMember \/ CrIter \/ CrIterNext

(***************************************************************************)
(* C12                                                                     *)
(***************************************************************************)
IsMemberRec(r) == r.kind \in {"file", "link"}
\* members, then the trailer record, then nothing
WellFormed(stream) ==
    /\ Len(stream) >= 1
    /\ stream[Len(stream)].kind = "trailer"
    /\ \A k \in 1..(Len(stream) - 1) : IsMemberRec(stream[k])
\* positions in the stream of the members the archive has listed
Listed == {k \in DOMAIN cr.stream :
              \E i \in DOMAIN cr.members :
                  cr.members[i].offset = RecStart(cr.stream, k)}

\* C12: getmember(name) returns the member at the last position in the
\* stream among the archive's members with that name, and raises KeyError
\* for a name no member has; in an archive of members and a trailer the
\* archive's members are all the member records.
ThmC12 ==
    cr.ret.op = "getmember" =>
        LET hits == {k \in Listed : cr.stream[k].name = cr.ret.name}
        IN /\ hits = {} => cr.ret.err = "KeyError" /\ cr.ret.val = NoMember
           /\ hits # {} =>
                 /\ cr.ret.err = ""
                 /\ cr.ret.val.name = cr.ret.name
                 /\ \A k \in hits :
                       RecStart(cr.stream, k) <= cr.ret.val.offset
                 /\ \E k \in hits :
                       RecStart(cr.stream, k) = cr.ret.val.offset
           /\ WellFormed(cr.stream) =>
                 Listed = {k \in DOMAIN cr.stream : IsMemberRec(cr.stream[k])}

\* "a" occurs twice before the trailer; the second one is returned
WitC12 ==
    /\ cr.ret.op = "getmember" /\ cr.ret.name = "a"
    /\ WellFormed(cr.stream) /\ Len(cr.stream) = 3
    /\ cr.stream[1].name = "a" /\ cr.stream[2].name = "a"
    /\ cr.ret.val.offset = RecStart(cr.stream, 2)

\* a name no member has
WitC12KeyError ==
    /\ cr.ret.op = "getmember" /\ cr.ret.name = "c" /\ cr.ret.err = "KeyError"
    /\ WellFormed(cr.stream) /\ Len(cr.stream) > 1

(***************************************************************************)
(* C13                                                                     *)
(***************************************************************************)
\* C13: once the archive has read the trailer record, every later next on
\* the archive, next on an iterator over it, and getmembers returns no
\* member the list did not have, next on the archive returns none at all,
\* and the member list stays as it was, whatever the stream holds.
CexC13 ==
    [][(cr.exhausted /\ cr'.ret.op \in {"next", "iternext", "getmembers"}) =>
          /\ cr'.members = cr.members
          /\ cr'.ret.op = "next" => cr'.ret.val = NoMember
          /\ cr'.ret.op = "iternext" =>
                \/ cr'.ret.val = NoMember
                \/ \E i \in DOMAIN cr.members : cr.members[i] = cr'.ret.val
          /\ cr'.ret.op = "getmembers" => cr'.ret.list = cr.members]_vars

\* what does hold: after the trailer nothing more is returned when nothing
\* that decodes follows the trailer in the stream
C13NothingAfterTrailer ==
    [][(/\ cr.exhausted
        /\ cr'.ret.op \in {"next", "iternext", "getmembers"}
        /\ \A k \in DOMAIN cr.stream :
              cr.stream[k].kind = "trailer" =>
                  \A j \in (k + 1)..Len(cr.stream) : cr.stream[j].kind = "bad") =>
          /\ cr'.members = cr.members
          /\ cr'.ret.op = "next" => cr'.ret.val = NoMember]_vars

(***************************************************************************)
(* C17                                                                     *)
(***************************************************************************)
AtBadHeader ==
    \E k \in DOMAIN cr.stream :
        cr.stream[k].kind = "bad" /\ RecStart(cr.stream, k) = cr.offset

\* C17: a header that does not decode, at the first record or later, makes
\* the scan fail with ReadError: the scan never ends normally (archive
\* loaded, member list returned) at such a header.
CexC17 ==
    AtBadHeader =>
        /\ ~cr.loaded
        /\ cr.ret.op # "getmembers"
        /\ cr.pc = "open" => cr.ret.err # "StopIteration"

\* what does hold: a first header that does not decode is a ReadError
C17FirstHeader ==
    (Len(cr.stream) > 0 /\ cr.stream[1].kind = "bad" /\ cr.pc # "init") =>
        cr.pc = "failed" /\ cr.err = "ReadError" /\ cr.members = <<>>

(***************************************************************************)
(* C20                                                                     *)
(***************************************************************************)
\* the member records of the stream, as the positions they begin at
RECURSIVE DiskOffsets(_, _)
DiskOffsets(stream, k) ==
    IF k > Len(stream) THEN <<>>
    ELSE IF IsMemberRec(stream[k])
         THEN <<RecStart(stream, k)>> \o DiskOffsets(stream, k + 1)
    ELSE DiskOffsets(stream, k + 1)

C20List ==
    cr.ret.op = "getmembers" =>
        /\ cr.ret.list = cr.members
        /\ cr.loaded
        /\ Len(cr.members) <= Len(DiskOffsets(cr.stream, 1))
        /\ \A i \in DOMAIN cr.members :
              cr.members[i].offset = DiskOffsets(cr.stream, 1)[i]
        /\ WellFormed(cr.stream) =>
              /\ Len(cr.members) = Len(DiskOffsets(cr.stream, 1))
              /\ \A i \in DOMAIN cr.members :
                    cr.members[i].name = cr.stream[i].name
C20Iterate ==
    (/\ cr.loaded
     /\ cr'.ret.op = "iternext"
     /\ cr.iters[cr'.ret.it].kind = "list") =>
        LET it == cr.iters[cr'.ret.it]
        IN /\ cr'.offset = cr.offset /\ cr'.members = cr.members
           /\ IF it.index < Len(cr.members) /\ ~it.done
              THEN /\ cr'.ret.val = cr.members[it.index + 1]
                   /\ cr'.iters[cr'.ret.it].index = it.index + 1
              ELSE cr'.ret.err = "StopIteration"
C20NewIterator ==
    (cr.loaded /\ Len(cr'.iters) > Len(cr.iters)) =>
        cr'.iters[Len(cr'.iters)] = [kind |-> "list", index |-> 0, done |-> FALSE]

\* C20: after any number of members has been consumed, getmembers()
\* returns the member list, which holds member records of the stream each
\* once and in stream order, and all of them when the stream is an archive
\* (members, then the trailer); an iteration started afterwards yields that
\* list from its first member on and leaves the stream offset where it is.
ThmC20 ==
    [](C20List) /\ [][C20Iterate /\ C20NewIterator]_vars

\* getmembers has listed both members of the archive, and an iteration
\* started after that has just yielded the second of them
WitC20 ==
    /\ WellFormed(cr.stream) /\ Len(cr.stream) = 3 /\ Len(cr.members) = 2
    /\ cr.loaded /\ cr.firstmember = NoMember
    /\ Len(cr.iters) = 1
    /\ cr.iters[1].kind = "list" /\ cr.iters[1].index = 2
    /\ cr.ret.op = "iternext" /\ cr.ret.it = 1 /\ cr.ret.val = cr.members[2]

(***************************************************************************)
(* One member from the work tree to its header and back: getcpioinfo, the  *)
(* attribute assignments of pack, CpioInfo.tobuf and CpioInfo.frombuf      *)
(* (utils/cpiofile.py, pack.py).  Numbers read from a header are kept as   *)
(* their hexadecimal digits, as inode numbers are.                         *)
(***************************************************************************)
\* os.lstat of a path of the work tree, with os.readlink for a link
HdStats ==
    {[name |-> NameOfLen(k), st_ino |-> i, st_mode |-> md, st_nlink |-> nl,
      st_size |-> sz, st_dev |-> dv, st_uid |-> 500, st_gid |-> 501,
      st_mtime |-> 99, link |-> IF md = ModeLnk THEN NameOfLen(2) ELSE <<>>] :
        k \in {1, 4},
        i \in {InoSmall, [j \in 1..8 |-> 15], InoWide},
        md \in {ModeReg, ModeDir, ModeLnk},
        nl \in {1, 2}, sz \in {0, 5},
        dv \in {[major |-> 0, minor |-> 0], [major |-> 8, minor |-> 1]}}
\* the entry of the attribute table pack applies to the member
HdAttrs ==
    {[uid |-> 0, gid |-> 0, mode |-> <<6, 4, 4>>, mtime |-> 0],
     [uid |-> 1000, gid |-> 2000, mode |-> <<7, 5, 5>>, mtime |-> 1230768000]}

\* CpioFile.getcpioinfo: the fields taken from the stat result
getcpioinfo(st) ==
    [CpioInfo(st.name) EXCEPT
        !.ino = st.st_ino, !.mode = st.st_mode, !.uid = st.st_uid,
        !.gid = st.st_gid, !.nlink = st.st_nlink, !.mtime = st.st_mtime,
        !.size = IF isreg(st.st_mode) THEN st.st_size ELSE 0,
        !.devmajor = st.st_dev.major, !.devminor = st.st_dev.minor,
        !.linkname = IF BitAnd(st.st_mode, S_IFMT) = S_IFLNK THEN st.link
                     ELSE <<>>]

\* int(s, 16) of a slice of the header: the value as hexadecimal digits
\* without leading zeros, or "ValueError"
HexDigit(c) ==
    IF c \in 48..57 THEN c - 48
    ELSE IF c \in 65..70 THEN c - 55
    ELSE IF c \in 97..102 THEN c - 87
    ELSE -1
RECURSIVE Strip(_)
Strip(ds) == IF Len(ds) > 1 /\ ds[1] = 0 THEN Strip(Tail(ds)) ELSE ds
Int16(s) ==
    IF s = <<>> \/ \E i \in 1..Len(s) : HexDigit(s[i]) = -1 THEN "ValueError"
    ELSE Strip([i \in 1..Len(s) |-> HexDigit(s[i])])

\* buf[a:b] of Python
Slice(buf, a, b) == SubSeq(buf, Min(a, Len(buf)) + 1, Min(b, Len(buf)))

\* CpioInfo.frombuf: thirteen fields at fixed offsets
frombuf(buf) ==
    [ino |-> Int16(Slice(buf, 6, 14)), mode |-> Int16(Slice(buf, 14, 22)),
     uid |-> Int16(Slice(buf, 22, 30)), gid |-> Int16(Slice(buf, 30, 38)),
     nlink |-> Int16(Slice(buf, 38, 46)), mtime |-> Int16(Slice(buf, 46, 54)),
     size |-> Int16(Slice(buf, 54, 62)), devmajor |-> Int16(Slice(buf, 62, 70)),
     devminor |-> Int16(Slice(buf, 70, 78)),
     rdevmajor |-> Int16(Slice(buf, 78, 86)),
     rdevminor |-> Int16(Slice(buf, 86, 94)),
     namesize |-> Int16(Slice(buf, 94, 102)),
     check |-> Int16(Slice(buf, 102, 110))]

HdIdle ==
    [pc |-> "idle", st |-> <<>>, attr |-> <<>>, ci |-> <<>>, buf |-> <<>>,
     back |-> <<>>]
HdStart ==
    {[HdIdle EXCEPT !.pc = "stat", !.st = s, !.attr = a] :
        s \in HdStats, a \in HdAttrs}

\* cpioinfo = f.getcpioinfo(file, arcname)
HdGetCpioInfo ==
    /\ hd.pc = "stat"
    /\ hd' = [hd EXCEPT !.pc = "info", !.ci = getcpioinfo(hd.st)]
    /\ UNCHANGED OtherThanHd

\* pack: cpioinfo.uid, .gid, .mode and .mtime from the attribute table
HdApplyAttr ==
    /\ hd.pc = "info"
    /\ hd' = [hd EXCEPT !.pc = "attr", !.ci = ApplyAttr(@, hd.attr)]
    /\ UNCHANGED OtherThanHd

\* addfile: buf = cpioinfo.tobuf()
HdToBuf ==
    /\ hd.pc = "attr"
    /\ hd' = [hd EXCEPT !.pc = "buf", !.buf = tobuf(hd.ci)]
    /\ UNCHANGED OtherThanHd

\* a reader of the archive: CpioInfo.frombuf(buf[:110])
HdFromBuf ==
    /\ hd.pc = "buf"
    /\ hd' = [hd EXCEPT !.pc = "read",
                        !.back = frombuf(Slice(hd.buf, 0, HEADERSIZE_SVR4))]
    /\ UNCHANGED OtherThanHd

NextHeader == HdGetCpioInfo \/ HdApplyAttr \/ HdToBuf \/ HdFromBuf

(***************************************************************************)
(* C15 -- the fixed part of a header is 110 bytes and reads back.          *)
(***************************************************************************)
\* the values the header was written from, as frombuf would return them
HdWritten(m) ==
    [ino |-> Strip(m.ino), mode |-> ToHex(m.mode), uid |-> ToHex(m.uid),
     gid |-> ToHex(m.gid), nlink |-> ToHex(m.nlink), mtime |-> ToHex(m.mtime),
     size |-> ToHex(SizeField(m)), devmajor |-> ToHex(m.devmajor),
     devminor |-> ToHex(m.devminor), rdevmajor |-> ToHex(m.rdevmajor),
     rdevminor |-> ToHex(m.rdevminor), namesize |-> ToHex(Len(m.name) + 1),
     check |-> ToHex(m.check)]
\* the bytes tobuf emits before the name
HdFixedLen(m) == Len(HeaderAndName(m)) - (Len(m.name) + 1)
HdUpperHex(c) == c \in 48..57 \/ c \in 65..70

\* C15: for every member getcpioinfo and pack produce from live metadata,
\* tobuf emits a fixed part of exactly 110 bytes, all of them uppercase
\* hexadecimal digits (6 for the magic, 8 for each of the 13 fields), and
\* frombuf reads the values of the 13 fields back from its fixed offsets.
CexC15 ==
    hd.pc = "read" =>
        /\ HdFixedLen(hd.ci) = HEADERSIZE_SVR4
        /\ \A i \in 1..HEADERSIZE_SVR4 : HdUpperHex(hd.buf[i])
        /\ hd.back = HdWritten(hd.ci)

\* the claim holds for members whose inode number is below 2^32
C15NarrowInode ==
    hd.pc = "read" /\ Len(Strip(hd.ci.ino)) <= 8 =>
        /\ HdFixedLen(hd.ci) = HEADERSIZE_SVR4
        /\ \A i \in 1..HEADERSIZE_SVR4 : HdUpperHex(hd.buf[i])
        /\ hd.back = HdWritten(hd.ci)

(***************************************************************************)
(* CpioFile.extractall (utils/cpiofile.py).  Names and paths are byte      *)
(* strings, "/" is byte 47; the filesystem maps each existing path to its  *)
(* kind and to the owner, modification time and permission bits it has.    *)
(***************************************************************************)
\* os.path.join(path, name) for a relative name
Join(path, name) == path \o <<47>> \o name

\* str.__lt__: byte-wise lexicographic order
RECURSIVE NameLT(_, _)
NameLT(x, y) ==
    IF x = <<>> THEN y # <<>>
    ELSE IF y = <<>> THEN FALSE
    ELSE IF x[1] # y[1] THEN x[1] < y[1]
    ELSE NameLT(Tail(x), Tail(y))

\* directories.sort(key=lambda x: x.name); directories.reverse()
RECURSIVE ReverseSorted(_)
ReverseSorted(S) ==
    IF S = {} THEN <<>>
    ELSE LET m == CHOOSE x \in S : \A y \in S \ {x} : NameLT(y.name, x.name)
         IN  <<m>> \o ReverseSorted(S \ {m})
\* the directories above a path
UpperDirs(p) == {SubSeq(p, 1, i - 1) : i \in {j \in 1..Len(p) : p[j] = 47}}

\* what chown, utime and chmod set from a member
MetaOf(m) == [uid |-> m.uid, gid |-> m.gid, mtime |-> m.mtime, mode |-> m.mode % 4096]
\* a directory made by os.makedirs(..., 0o777): the process's owner and clock
ExSafe == [uid |-> 0, gid |-> 0, mtime |-> 0, mode |-> 511]

\* os.makedirs(p, 0o777), EnvironmentError passed over: p and the missing
\* directories above it
makedirsSkipped(fs, p) == fs
makedirs(fs, p) ==
    [q \in DOMAIN fs \cup {p} \cup UpperDirs(p) |->
        IF q \in DOMAIN fs THEN fs[q] ELSE [kind |-> "dir", meta |-> ExSafe]]

\* extract / _extract_member of a member that is no directory: missing upper
\* directories are made with mode 0o777 and the member's owner and mtime,
\* then the member itself with its own
ExtractMember(fs, m, p) ==
    [q \in DOMAIN fs \cup {p} \cup UpperDirs(p) |->
        IF q = p THEN [kind |-> "file", meta |-> MetaOf(m)]
        ELSE IF q \in DOMAIN fs THEN fs[q]
        ELSE [kind |-> "dir", meta |-> [MetaOf(m) EXCEPT !.mode = 511]]]

\* the target directory of the extraction: "p"
ExBase == <<112>>
\* members: directories a, b, a/b, b/a and the regular file b/f
ExDir(n, t) ==
    [name |-> n, mode |-> S_IFDIR + 488, uid |-> 1000, gid |-> 1000, mtime |-> t]
ExPool ==
    {ExDir(<<97>>, 1001), ExDir(<<98>>, 1002), ExDir(<<97, 47, 98>>, 1003),
     ExDir(<<98, 47, 97>>, 1004),
     [name |-> <<98, 47, 102>>, mode |-> ModeReg, uid |-> 1000, gid |-> 1000,
      mtime |-> 1005]}
ExArchives ==
    {s \in UNION {[1..n -> ExPool] : n \in 0..MaxMembers} :
        \A i, j \in DOMAIN s : i # j => s[i] # s[j]}

ExIdle ==
    [pc |-> "idle", errorlevel |-> 0, members |-> <<>>, i |-> 0, path |-> <<>>,
     directories |-> <<>>, k |-> 0, fs |-> <<>>, dbg |-> 0, err |-> ""]
ExStart ==
    {[ExIdle EXCEPT !.pc = "members", !.errorlevel = e, !.members = a, !.i = 1,
                    !.path = ExBase,
                    !.fs = [q \in {ExBase} |-> [kind |-> "dir", meta |-> ExSafe]]] :
        e \in 0..2, a \in ExArchives}

\* for cpioinfo in members: a directory is made with a safe mode and
\* remembered, any other member is extracted
ExMember ==
    /\ ex.pc = "members" /\ ex.i <= Len(ex.members)
    /\ LET m == ex.members[ex.i]
           p == Join(ex.path, m.name)
       IN  IF isdir(m.mode)
           THEN ex' = [ex EXCEPT !.fs = makedirs(@, p),
                                 !.directories = Append(@, m), !.i = @ + 1]
           ELSE ex' = [ex EXCEPT !.fs = ExtractMember(@, m, p), !.i = @ + 1]
    /\ UNCHANGED OtherThanEx

\* Reverse sort directories.
ExSort ==
    /\ ex.pc = "members" /\ ex.i > Len(ex.members)
    /\ ex' = [ex EXCEPT
                !.directories = ReverseSorted({@[j] : j \in DOMAIN @}),
                !.pc = "attrs", !.k = 1]
    /\ UNCHANGED OtherThanEx

\* for cpioinfo in directories: path = os.path.join(path, name); chown,
\* utime, chmod; an ExtractError is raised if errorlevel > 1, reported as
\* debug output otherwise
ExAttr ==
    /\ ex.pc = "attrs" /\ ex.k <= Len(ex.directories)
    /\ LET d == ex.directories[ex.k]
           p == Join(ex.path, d.name)
       IN  IF p \in DOMAIN ex.fs
           THEN ex' = [ex EXCEPT !.path = p, !.k = @ + 1,
                                 !.fs = [@ EXCEPT ![p].meta = MetaOf(d)]]
           ELSE IF ex.errorlevel > 1
           THEN ex' = [ex EXCEPT !.path = p, !.pc = "raised",
                                 !.err = "ExtractError"]
           ELSE ex' = [ex EXCEPT !.path = p, !.k = @ + 1, !.dbg = @ + 1]
    /\ UNCHANGED OtherThanEx

ExDone ==
    /\ ex.pc = "attrs" /\ ex.k > Len(ex.directories)
    /\ ex' = [ex EXCEPT !.pc = "done"]
    /\ UNCHANGED OtherThanEx

NextExtract == ExMember \/ ExSort \/ ExAttr \/ ExDone

(***************************************************************************)
(* C21 -- the order in which extractall creates directories and files.     *)
(***************************************************************************)
ExPathOf(j) == Join(ExBase, ex.members[j].name)
\* members met so far by the first loop
ExMet == 1..(ex.i - 1)

ExDirMembers == {ex.members[i] : i \in {j \in DOMAIN ex.members : isdir(ex.members[j].mode)}}
ExReverseOrder ==
    /\ {ex.directories[k] : k \in DOMAIN ex.directories} = ExDirMembers
    /\ \A k \in 1..(Len(ex.directories) - 1) :
          NameLT(ex.directories[k + 1].name, ex.directories[k].name)

\* C18: once extractall(path) has processed the archive, the directory at
\* path/D.name carries the owner, modification time and permission bits of
\* D, for every directory member D, and the directories were processed in
\* reverse lexicographic order of their names.
CexC18 ==
    ex.pc = "done" =>
        /\ ExReverseOrder
        /\ \A d \in ExDirMembers :
              /\ Join(ExBase, d.name) \in DOMAIN ex.fs
              /\ ex.fs[Join(ExBase, d.name)].meta = MetaOf(d)

\* what the code does: the directories are taken in reverse name order, the
\* first of them gets its attributes, every later one is looked for below
\* the one before it and keeps the attributes it was made with
C18FirstOnly ==
    ex.pc \in {"done", "raised"} =>
        /\ ExReverseOrder
        /\ \A k \in DOMAIN ex.directories :
              LET p == Join(ExBase, ex.directories[k].name)
              IN  /\ p \in DOMAIN ex.fs
                  /\ ex.fs[p].meta = MetaOf(ex.directories[k]) <=> k = 1
        /\ ex.pc = "raised" <=> (ex.errorlevel > 1 /\ Len(ex.directories) > 1)

(***************************************************************************)
(* An archive file written, appended to and read back, byte by byte        *)
(* (utils/cpiofile.py: CpioFile.__init__, addfile, close, __next__).       *)
(* The file is its bytes and the position of the next read or write.       *)
(***************************************************************************)
\* fileobj.write(data) at position pos: overwrites, then extends
FileWrite(f, data) ==
    [bytes |-> SubSeq(f.bytes, 1, f.pos) \o data
                  \o SubSeq(f.bytes, f.pos + Len(data) + 1, Len(f.bytes)),
     pos |-> f.pos + Len(data)]

\* the value of a hexadecimal digit string of at most seven digits
RECURSIVE HexValue(_)
HexValue(ds) ==
    IF ds = <<>> THEN 0
    ELSE HexValue(SubSeq(ds, 1, Len(ds) - 1)) * 16 + ds[Len(ds)]
\* a byte count read from a header: a count of eight digits is kept as
\* 16^7, which is beyond the end of every file here, as the count itself is
Beyond == 16 * 16 * 16 * 16 * 16 * 16 * 16
CountOf(ds) == IF Len(ds) > 7 THEN Beyond ELSE HexValue(ds)
\* the low sixteen bits of a mode, where the file type is
ModeBits(ds) == HexValue(SubSeq(ds, Max(1, Len(ds) - 3), Len(ds)))

\* int(s, 16) succeeds
HexOk(s) == s # <<>> /\ \A i \in 1..Len(s) : HexDigit(s[i]) # -1
\* frombuf raises no ValueError: every one of the thirteen slices is a number
HeaderOk(buf) ==
    \A k \in 0..12 : HexOk(Slice(buf, 6 + 8 * k, 14 + 8 * k))

\* bytes.rstrip(NUL)
RECURSIVE RStripNul(_)
RStripNul(b) ==
    IF b # <<>> /\ b[Len(b)] = 0 THEN RStripNul(SubSeq(b, 1, Len(b) - 1)) ELSE b

issym(mode) == BitAnd(mode, S_IFMT) = S_IFLNK

\* CpioFile.__next__ on the bytes of the file, from the archive's offset:
\* what it returns (a member, None at the trailer, at the end of the file
\* or at a bad header after the first, ReadError at a bad first header) and
\* the offset it leaves
NextOfBytes(bytes, offset) ==
    LET buf == Slice(bytes, offset, offset + HEADERSIZE_SVR4)
    IN  IF buf = <<>> THEN [ret |-> "None", at |-> "eof", offset |-> offset]
        ELSE IF ~HeaderOk(buf)
        THEN [ret |-> IF offset = 0 THEN "ReadError" ELSE "None", at |-> "bad",
              offset |-> offset]
        ELSE
        LET h    == frombuf(buf)
            thl  == Word(HEADERSIZE_SVR4 + CountOf(h.namesize))
            name == RStripNul(Slice(bytes, offset + HEADERSIZE_SVR4, offset + thl))
            off1 == offset + thl
            size == CountOf(h.size)
            lnk  == issym(ModeBits(h.mode))
            off2 == IF lnk THEN off1 + Word(size) ELSE off1
            sz2  == IF lnk THEN 0 ELSE size
        IN  IF name = TRAILER_NAME
            THEN [ret |-> "None", at |-> "trailer", offset |-> off1]
            ELSE [ret |-> "member", at |-> "member",
                  offset |-> IF sz2 > 0 THEN off2 + Word(sz2) ELSE off2,
                  m |-> [name |-> name, ino |-> h.ino, mode |-> h.mode,
                         uid |-> h.uid, gid |-> h.gid, nlink |-> h.nlink,
                         mtime |-> h.mtime, size |-> sz2,
                         linkname |-> IF lnk
                                      THEN RStripNul(Slice(bytes, off1, off1 + Word(size)))
                                      ELSE <<>>,
                         offset |-> offset, offset_data |-> off2]]

\* _load, and the scan of __init__ in mode "a": next(self) until it returns
\* None; last_offset is the offset of the last member returned
RECURSIVE ScanAll(_, _, _, _)
ScanAll(bytes, offset, members, last_offset) ==
    LET r == NextOfBytes(bytes, offset)
    IN  IF r.ret = "member"
        THEN ScanAll(bytes, r.offset, Append(members, r.m), r.m.offset)
        ELSE [ret |-> r.ret, offset |-> r.offset, members |-> members,
              last_offset |-> last_offset]

\* payload of a regular file: size bytes "!"
RtData(size) == [i \in 1..size |-> 33]
\* the calls addfile(cpioinfo, fileobj): a regular file, the two names of a
\* hardlink group, a directory, a symbolic link, and a file whose inode
\* number is 0x100000000
RtCalls ==
    {[m |-> MemberOf(NameOfLen(4), InoSmall, ModeReg, 1, 1, <<>>), data |-> TRUE],
     [m |-> MemberOf(NameOfLen(5), InoOther, ModeReg, 2, 3, <<>>), data |-> TRUE],
     [m |-> MemberOf(NameOfLen(6), InoOther, ModeReg, 2, 3, <<>>), data |-> TRUE],
     [m |-> MemberOf(NameOfLen(7), [j \in 1..8 |-> 15], ModeDir, 2, 0, <<>>),
      data |-> FALSE],
     [m |-> MemberOf(NameOfLen(3), InoSmall, ModeLnk, 1, 0, NameOfLen(2)),
      data |-> FALSE],
     [m |-> MemberOf(NameOfLen(2), InoWide, ModeReg, 1, 2, <<>>), data |-> TRUE]}

NoScan == [ret |-> "", offset |-> 0, members |-> <<>>, last_offset |-> 0]
RtIdle ==
    [pc |-> "idle", mode |-> "", hardlinks |-> TRUE, offset |-> 0, members |-> <<>>,
     inodes |-> <<>>, file |-> [bytes |-> <<>>, pos |-> 0], wrote |-> <<>>,
     original |-> <<>>, appended |-> FALSE, nclose |-> 0, read |-> NoScan,
     firstmember |-> "None"]
\* cpiofile.open(name, "w") on a new file
RtStart == {[RtIdle EXCEPT !.pc = "open", !.mode = "w"]}

\* CpioFile.addfile(cpioinfo, fileobj) in mode "w" or "a"
RtAddFile ==
    /\ rt.pc = "open"
    /\ Len(rt.wrote) < (IF rt.mode = "w" THEN MaxAdds ELSE MaxAppends)
    /\ \E call \in RtCalls :
         LET cp   == CopyCopy(call.m)
             dup  == call.m.nlink > 1 /\ AlreadyAdded(rt, call.m.ino)
             c    == IF dup THEN [cp.obj EXCEPT !.size = 0] ELSE cp.obj
             buf  == tobuf(c)
             off1 == rt.offset + Len(buf)
             off2 == IF call.data THEN off1 + c.size ELSE off1
             rem  == off2 % WORDSIZE
             pad  == IF call.data /\ rem > 0 THEN WORDSIZE - rem ELSE 0
             out  == buf \o (IF call.data THEN RtData(c.size) ELSE <<>>) \o Nuls(pad)
         IN  rt' = [rt EXCEPT
                 !.inodes = IF call.m.nlink > 1
                            THEN IF dup THEN [@ EXCEPT ![c.ino] = Append(@, c.name)]
                                 ELSE (c.ino :> <<c.name>>) @@ @
                            ELSE @,
                 !.file = FileWrite(@, out),
                 !.offset = off2 + pad,
                 !.members = Append(@, c),
                 !.wrote = Append(@, [m |-> c, offset |-> rt.offset,
                                      offset_data |-> off1, at |-> rt.file.pos,
                                      n |-> Len(out)])]
    /\ UNCHANGED OtherThanRt

\* trailer = CpioInfo(TRAILER_NAME); trailer.mode = 0; buf = trailer.tobuf()
TrailerBuf == tobuf([CpioInfo(TRAILER_NAME) EXCEPT !.mode = 0])
\* CpioFile.close in mode "w" or "a": the trailer, then the file is closed
RtClose ==
    /\ rt.pc = "open"
    /\ rt' = [rt EXCEPT !.file = FileWrite(@, TrailerBuf),
                        !.offset = @ + Len(TrailerBuf),
                        !.pc = "closed", !.nclose = 1]
    /\ UNCHANGED OtherThanRt

\* a close that writes its trailer whether or not the archive is closed
RtCloseRepeated ==
    /\ rt.pc = "closed" /\ rt.nclose < MaxCloses
    /\ rt' = [rt EXCEPT !.file = FileWrite(@, TrailerBuf),
                        !.offset = @ + Len(TrailerBuf), !.nclose = @ + 1]
    /\ UNCHANGED OtherThanRt
\* close again, as __exit__ does after an explicit close: "if self.closed: return"
RtCloseAgain ==
    /\ rt.pc = "closed" /\ rt.nclose < MaxCloses
    /\ rt' = [rt EXCEPT !.nclose = @ + 1]
    /\ UNCHANGED OtherThanRt

\* cpiofile.open(name, "a"): the file is opened "r+b" and scanned with
\* next(self); at None the file is positioned with seek(last_offset), after
\* a ReadError with seek(0); the archive's offset stays where the scan left it
RtOpenAppend ==
    /\ rt.pc = "closed" /\ ~rt.appended
    /\ LET s == ScanAll(rt.file.bytes, 0, <<>>, 0)
       IN  rt' = [rt EXCEPT
                 !.pc = "open", !.mode = "a", !.appended = TRUE, !.nclose = 0,
                 !.original = rt.wrote, !.wrote = <<>>,
                 !.members = s.members, !.inodes = <<>>,
                 !.offset = s.offset,
                 !.file = [@ EXCEPT !.pos = IF s.ret = "ReadError" THEN 0
                                            ELSE s.last_offset]]
    /\ UNCHANGED OtherThanRt

\* cpiofile.open(name, "r"): self.firstmember = next(self)
RtOpenRead ==
    /\ rt.pc = "closed"
    /\ LET r == NextOfBytes(rt.file.bytes, 0)
       IN  rt' = [rt EXCEPT
                 !.pc = IF r.ret = "ReadError" THEN "failed" ELSE "reading",
                 !.mode = "r", !.offset = r.offset,
                 !.members = IF r.ret = "member" THEN <<r.m>> ELSE <<>>,
                 !.firstmember = r.ret]
    /\ UNCHANGED OtherThanRt

\* getmembers(): _load; the first next(self) hands back the cached first
\* member without reading
RtGetMembers ==
    /\ rt.pc = "reading"
    /\ LET s == ScanAll(rt.file.bytes, rt.offset, rt.members, 0)
       IN  rt' = [rt EXCEPT !.pc = "done", !.offset = s.offset,
                            !.members = s.members, !.read = s,
                            !.firstmember = "None"]
    /\ UNCHANGED OtherThanRt

NextRoundTrip ==
    RtAddFile \/ RtClose \/ RtCloseAgain \/ RtOpenAppend \/ RtOpenRead
      \/ RtGetMembers

\* C22: an archive written in mode "w" with addfile and closed, none of whose
\* members has a numeric field of 2^32 or more, reads back as the same
\* number of members in the same order, each with the name, inode, mode, uid,
\* gid, link count, mtime and link target the writer recorded; a symbolic
\* link is read back with size 0; each member's header offset is the
\* writer's offset when it was added, its payload offset where the writer
\* put the payload.
RtNarrow(m) == Len(m.ino) <= 8
RtSame(w, r) ==
    /\ r.name = w.m.name /\ r.ino = w.m.ino /\ r.mode = ToHex(w.m.mode)
    /\ r.uid = ToHex(w.m.uid) /\ r.gid = ToHex(w.m.gid)
    /\ r.nlink = ToHex(w.m.nlink) /\ r.mtime = ToHex(w.m.mtime)
    /\ r.linkname = w.m.linkname
    /\ (issym(w.m.mode) => r.size = 0)
    /\ r.offset = w.offset
    /\ r.offset_data = w.offset_data
RtReadBackOfWrite == rt.pc = "done" /\ ~rt.appended
RtEnd(k) == IF k = 0 THEN 0 ELSE rt.wrote[k].at + rt.wrote[k].n
RtRecordsInPlace ==
    \A i \in 1..Len(rt.wrote) :
        /\ rt.wrote[i].at = RtEnd(i - 1)
        /\ Slice(rt.file.bytes, rt.wrote[i].at,
                 rt.wrote[i].at + Len(tobuf(rt.wrote[i].m))) = tobuf(rt.wrote[i].m)
RtClosedWrite == rt.pc = "closed" /\ rt.mode = "w"
ThmC25 ==
    RtClosedWrite
      => /\ RtRecordsInPlace
         /\ Slice(rt.file.bytes, RtEnd(Len(rt.wrote)), Len(rt.file.bytes)) = TrailerBuf
         /\ rt.members = [i \in 1..Len(rt.wrote) |-> rt.wrote[i].m]
WitC25 == RtClosedWrite /\ rt.nclose = MaxCloses /\ Len(rt.wrote) = MaxAdds

\* C30: an archive of n members opened in append mode, extended by k
\* members and closed reads back as the n original members, unchanged and
\* in their order, followed by the k added members; no original member is
\* overwritten.
RtAppendedRead ==
    /\ rt.pc = "done" /\ rt.appended
    /\ \A i \in 1..Len(rt.original) : RtNarrow(rt.original[i].m)
    /\ \A i \in 1..Len(rt.wrote) : RtNarrow(rt.wrote[i].m)
RtSameMember(w, r) ==
    /\ r.name = w.m.name /\ r.ino = w.m.ino /\ r.mode = ToHex(w.m.mode)
    /\ r.linkname = w.m.linkname
RtReadsAs(ws) ==
    /\ Len(rt.members) = Len(ws)
    /\ \A i \in 1..Len(ws) : RtSameMember(ws[i], rt.members[i])
CexC30 == RtAppendedRead => RtReadsAs(rt.original \o rt.wrote)
\* what the code does: the last original member is replaced by what is added
C30LastOverwritten ==
    RtAppendedRead
      => RtReadsAs(SubSeq(rt.original, 1, Len(rt.original) - 1) \o rt.wrote)

\* C23: for every simple-format image that unpack accepts, the ramdisk file
\* it writes has exactly the length the image's size field gives (the bytes
\* of the image from offset 8 to offset 8 + size); an image with fewer
\* bytes after offset 8 yields no shorter ramdisk.
UpKrnlUnpacked == up.info.boot_magic = "KRNL"
CexC23 ==
    UpKrnlUnpacked
      => ToWord(up.ramdisk_len) = UnpackLE32(SubSeq(up.img.lead, 5, 8))
\* what the code does: the ramdisk is the bytes the image has, at most size
C23WhatIsThere ==
    UpKrnlUnpacked
      => up.ramdisk_len = Min(RdLen(up.img.rd), ImgLen(up.img) - 8)

(***************************************************************************)
(* CpioFile.extractall on an archive that is read while it is extracted    *)
(* (utils/cpiofile.py: CpioIter, _datamember, extract, makefile): the      *)
(* members of hardlink groups, and the members whose creation or whose     *)
(* chmod fails on the target.                                              *)
(***************************************************************************)
XtNone ==
    [name |-> <<>>, kind |-> "none", ino |-> 0, nlink |-> 0, size |-> 0,
     fault |-> "none"]
\* a member, and what the target does when it is extracted: "create" fails
\* the call that creates it (EnvironmentError), "meta" fails chmod, "exists"
\* is a directory that is there already
XtMemberOf(n, k, i, l, s, f) ==
    [name |-> n, kind |-> k, ino |-> i, nlink |-> l, size |-> s, fault |-> f]
\* the two names h, i of a hardlink group, either of them with or without
\* the payload; a file x, a directory d, a symbolic link s
XtPool ==
    {XtMemberOf(<<104>>, "reg", 5, 2, s, "none") : s \in {0, 3}}
    \cup {XtMemberOf(<<105>>, "reg", 5, 2, s, "none") : s \in {0, 3}}
    \cup {XtMemberOf(<<120>>, "reg", 7, 1, 1, f) : f \in {"none", "create", "meta"}}
    \cup {XtMemberOf(<<100>>, "dir", 8, 2, 0, f) :
              f \in {"none", "exists", "create", "meta"}}
    \cup {XtMemberOf(<<115>>, "sym", 9, 1, 0, "none")}
XtArchives ==
    {s \in UNION {[1..n -> XtPool] : n \in 0..MaxExtract} :
        \A i, j \in DOMAIN s : i # j => s[i].name # s[j].name}

\* the archive: the members on disk, how many of them next(archive) has
\* read into archive.members, the cached first member, the _loaded flag
XtArchive(disk) ==
    [disk |-> disk, read |-> Min(1, Len(disk)), cached |-> disk # <<>>,
     loaded |-> FALSE]

\* CpioFile.__next__: the cached first member, or the next member on disk,
\* or None
ArchiveNext(a) ==
    IF a.cached THEN [ar |-> [a EXCEPT !.cached = FALSE], m |-> a.disk[1]]
    ELSE IF a.read < Len(a.disk)
    THEN [ar |-> [a EXCEPT !.read = @ + 1], m |-> a.disk[a.read + 1]]
    ELSE [ar |-> a, m |-> XtNone]

\* CpioIter.__next__: next(archive) while the archive is not _loaded,
\* archive.members[index] once it is
IterNext(a, index) ==
    IF ~a.loaded
    THEN LET r == ArchiveNext(a)
         IN  IF r.m = XtNone
             THEN [ar |-> [r.ar EXCEPT !.loaded = TRUE], m |-> XtNone,
                   index |-> index]
             ELSE [ar |-> r.ar, m |-> r.m, index |-> index + 1]
    ELSE IF index < a.read
         THEN [ar |-> a, m |-> a.disk[index + 1], index |-> index + 1]
         ELSE [ar |-> a, m |-> XtNone, index |-> index]

\* _datamember: "for info in self" with an iterator of its own, up to the
\* first member of the same inode that has a payload
RECURSIVE DataScan(_, _, _)
DataScan(a, index, m) ==
    LET r == IterNext(a, index)
    IN  IF r.m = XtNone THEN [ar |-> r.ar, m |-> m]
        ELSE IF r.m.ino = m.ino /\ r.m.size > 0 THEN [ar |-> r.ar, m |-> r.m]
        ELSE DataScan(r.ar, r.index, m)
DataMember(a, m) == IF m.size = 0 THEN DataScan(a, 0, m) ELSE [ar |-> a, m |-> m]

\* extract: an EnvironmentError is raised if errorlevel > 0, an ExtractError
\* if errorlevel > 1; otherwise the error is a debug message
PropagatesAtAnyRaisedLevel(errorlevel, e) == e # "ok" /\ errorlevel > 0
Propagates(errorlevel, e) ==
    \/ e = "EnvironmentError" /\ errorlevel > 0
    \/ e = "ExtractError" /\ errorlevel > 1

XtFile(i, d) == [kind |-> "file", ino |-> i, data |-> d, meta |-> FALSE]
XtDirEntry == [kind |-> "dir", ino |-> <<>>, data |-> <<>>, meta |-> FALSE]
\* _extract_member of a member that is no directory, at path p below base:
\* makefile (copy, or os.link to the first name extracted of the inode) or
\* makesymlink, then chown, chmod, utime
ExtractOne(x, m, base) ==
    LET p      == Join(base, m.name)
        linked == m.kind = "reg" /\ m.nlink # 1 /\ m.ino \in DOMAIN x.inodes
        src    == Join(base, x.inodes[m.ino][1])
        dm     == IF m.kind = "reg" /\ m.nlink # 1 /\ ~linked
                  THEN DataMember(x.ar, m) ELSE [ar |-> x.ar, m |-> m]
        ino2   == IF m.kind = "reg"
                  THEN IF m.ino \in DOMAIN x.inodes
                       THEN [x.inodes EXCEPT ![m.ino] = Append(@, m.name)]
                       ELSE (m.ino :> <<m.name>>) @@ x.inodes
                  ELSE x.inodes
        made   == IF linked THEN src \in DOMAIN x.fs /\ m.fault # "create"
                  ELSE m.fault # "create"
        entry  == IF linked THEN x.fs[src]
                  ELSE IF m.kind = "sym" THEN [XtFile(p, <<>>) EXCEPT !.kind = "sym"]
                  ELSE XtFile(p, dm.m.name)
        e      == IF ~made THEN "EnvironmentError"
                  ELSE IF m.fault = "meta" THEN "ExtractError" ELSE "ok"
    IN  [ar |-> dm.ar,
         inodes |-> IF linked /\ ~made THEN x.inodes ELSE ino2,
         fs |-> IF made
                THEN (p :> [entry EXCEPT !.meta = (e = "ok")]) @@ x.fs
                ELSE x.fs,
         e |-> e]

XtIdle ==
    [pc |-> "idle", errorlevel |-> 0, ar |-> XtArchive(<<>>), index |-> 0,
     inodes |-> <<>>, fs |-> <<>>, path |-> <<>>, directories |-> <<>>,
     k |-> 0, log |-> <<>>, dbg |-> 0, err |-> "", listed |-> FALSE]
\* cpiofile.open(name, "r") and a target directory "p", where the
\* directories that exist already are
XtStart ==
    {[XtIdle EXCEPT !.pc = "opened", !.errorlevel = e, !.ar = XtArchive(a),
                    !.path = ExBase,
                    !.fs = [q \in {ExBase} \cup
                                  {Join(ExBase, a[i].name) :
                                      i \in {j \in DOMAIN a : a[j].fault = "exists"}}
                              |-> XtDirEntry]] :
        e \in 0..2, a \in XtArchives}

\* getmembers() before the extraction, as unpack does: _load
XtGetMembers ==
    /\ xt.pc = "opened" /\ ~xt.ar.loaded
    /\ xt' = [xt EXCEPT !.ar = [xt.ar EXCEPT !.read = Len(xt.ar.disk),
                                             !.cached = FALSE, !.loaded = TRUE],
                        !.listed = TRUE]
    /\ UNCHANGED OtherThanXt

\* extractall(path): members = self
XtExtractAll ==
    /\ xt.pc = "opened"
    /\ xt' = [xt EXCEPT !.pc = "members"]
    /\ UNCHANGED OtherThanXt

\* one turn of "for cpioinfo in members": os.makedirs for a directory, any
\* EnvironmentError passed over; extract for any other member
XtMember ==
    /\ xt.pc = "members"
    /\ LET r == IterNext(xt.ar, xt.index)
           m == r.m
           p == Join(xt.path, m.name)
       IN  /\ m # XtNone
           /\ IF m.kind = "dir"
              THEN xt' = [xt EXCEPT
                      !.ar = r.ar, !.index = r.index,
                      !.fs = IF m.fault = "create" THEN @ ELSE (p :> XtDirEntry) @@ @,
                      !.directories = Append(@, m),
                      !.log = Append(@, [m |-> m, loop |-> 1,
                                         e |-> IF m.fault \in {"create", "exists"}
                                               THEN "EnvironmentError" ELSE "ok"])]
              ELSE LET o == ExtractOne([xt EXCEPT !.ar = r.ar], m, xt.path)
                   IN  xt' = [xt EXCEPT
                           !.ar = o.ar, !.index = r.index, !.inodes = o.inodes,
                           !.fs = o.fs,
                           !.log = Append(@, [m |-> m, loop |-> 1, e |-> o.e]),
                           !.pc = IF Propagates(xt.errorlevel, o.e) THEN "raised" ELSE @,
                           !.err = IF Propagates(xt.errorlevel, o.e) THEN o.e ELSE @,
                           !.dbg = IF o.e # "ok" /\ ~Propagates(xt.errorlevel, o.e)
                                   THEN @ + 1 ELSE @]
    /\ UNCHANGED OtherThanXt

\* the iterator stops; directories.sort(key=name); directories.reverse()
XtSort ==
    /\ xt.pc = "members"
    /\ LET r == IterNext(xt.ar, xt.index)
       IN  /\ r.m = XtNone
           /\ xt' = [xt EXCEPT
                   !.ar = r.ar,
                   !.directories = ReverseSorted({@[j] : j \in DOMAIN @}),
                   !.pc = "attrs", !.k = 1]
    /\ UNCHANGED OtherThanXt

\* for cpioinfo in directories: path = os.path.join(path, name); chown,
\* utime, chmod; an ExtractError is raised if errorlevel > 1
XtAttr ==
    /\ xt.pc = "attrs" /\ xt.k <= Len(xt.directories)
    /\ LET d == xt.directories[xt.k]
           p == Join(xt.path, d.name)
           e == IF p \in DOMAIN xt.fs /\ d.fault # "meta" THEN "ok"
                ELSE "ExtractError"
       IN  xt' = [xt EXCEPT
               !.path = p,
               !.fs = IF e = "ok" THEN [@ EXCEPT ![p].meta = TRUE] ELSE @,
               !.log = Append(@, [m |-> d, loop |-> 2, e |-> e]),
               !.k = IF e # "ok" /\ xt.errorlevel > 1 THEN @ ELSE @ + 1,
               !.pc = IF e # "ok" /\ xt.errorlevel > 1 THEN "raised" ELSE @,
               !.err = IF e # "ok" /\ xt.errorlevel > 1 THEN e ELSE @,
               !.dbg = IF e # "ok" /\ xt.errorlevel <= 1 THEN @ + 1 ELSE @]
    /\ UNCHANGED OtherThanXt

XtDone ==
    /\ xt.pc = "attrs" /\ xt.k > Len(xt.directories)
    /\ xt' = [xt EXCEPT !.pc = "done"]
    /\ UNCHANGED OtherThanXt

NextExtractAll ==
    XtGetMembers \/ XtExtractAll \/ XtMember \/ XtSort \/ XtAttr \/ XtDone

\* the members the loop of extractall was handed, in the order it got them
XtYielded == [j \in 1..Len(SelectSeq(xt.log, LAMBDA l : l.loop = 1)) |->
                 SelectSeq(xt.log, LAMBDA l : l.loop = 1)[j].m]
XtFaultFree == \A j \in DOMAIN xt.ar.disk : xt.ar.disk[j].fault \in {"none", "exists"}
\* C29: an iterator over a read-mode archive yields every member exactly
\* once, in on-disk order, also when another iterator over the archive (the
\* scan of _datamember) is advanced between two of its steps; so extractall
\* materializes every member, whether or not getmembers was called before.
CexC29 ==
    xt.pc = "done"
      => /\ XtYielded = xt.ar.disk
         /\ XtFaultFree =>
               \A j \in DOMAIN xt.ar.disk :
                   Join(ExBase, xt.ar.disk[j].name) \in DOMAIN xt.fs
\* what the code does: that holds once getmembers has loaded the archive
C29AfterGetMembers ==
    (xt.pc = "done" /\ xt.listed)
      => /\ XtYielded = xt.ar.disk
         /\ XtFaultFree =>
               \A j \in DOMAIN xt.ar.disk :
                   Join(ExBase, xt.ar.disk[j].name) \in DOMAIN xt.fs

\* the members of the hardlink group of inode i, in archive order
XtGroup(i) ==
    SelectSeq(xt.ar.disk, LAMBDA m : m.kind = "reg" /\ m.nlink > 1 /\ m.ino = i)
XtGroupAsOne(i) ==
    LET g     == XtGroup(i)
        first == Join(ExBase, g[1].name)
    IN  \A j \in DOMAIN g :
            /\ Join(ExBase, g[j].name) \in DOMAIN xt.fs
            /\ xt.fs[Join(ExBase, g[j].name)].ino = first
            /\ (\E n \in DOMAIN g : g[n].size > 0)
                  => \E n \in DOMAIN g :
                        /\ g[n].size > 0
                        /\ xt.fs[Join(ExBase, g[j].name)].data = g[n].name
\* C24: when extractall has processed an archive with a hardlink group,
\* one member of the group was made by copying the group's payload and every
\* other member is a hardlink to the path of the first one extracted: all
\* names of the group are one inode of the target.
CexC24 ==
    (xt.pc = "done" /\ XtFaultFree)
      => \A j \in DOMAIN xt.ar.disk :
            (xt.ar.disk[j].kind = "reg" /\ xt.ar.disk[j].nlink > 1)
               => XtGroupAsOne(xt.ar.disk[j].ino)
\* what the code does: that holds once getmembers has loaded the archive
C24AfterGetMembers ==
    (xt.pc = "done" /\ XtFaultFree /\ xt.listed)
      => \A j \in DOMAIN xt.ar.disk :
            (xt.ar.disk[j].kind = "reg" /\ xt.ar.disk[j].nlink > 1)
               => XtGroupAsOne(xt.ar.disk[j].ino)

\* the call that handled log entry j ended extractall with an exception
XtRaisedAt(j) == xt.pc = "raised" /\ j = Len(xt.log)
\* a member whose creation, chown, chmod or utime failed; a directory that
\* exists already is none
XtFailed(l) == l.e # "ok" /\ l.m.fault # "exists"
Compressed(plain) ==
    [i \in 1..(2 * Len(plain) + 1) |->
        IF i = 2 * Len(plain) + 1 THEN 0
        ELSE IF i % 2 = 1 THEN 1 ELSE plain[i \div 2]]
\* a complete compressed stream: header, records, end mark
CompressedStream(plain) == BZ2_MAGIC \o Compressed(plain)
HeaderLeft ==
    [h5 |-> 5, h4 |-> 4, h3 |-> 3, h2 |-> 2, h1 |-> 1, tag |-> 0, val |-> 0,
     eof |-> 0]
HeaderStates == <<"tag", "h1", "h2", "h3", "h4", "h5">>
\* the decompressor in state st fed the bytes raw: the rest of the header
\* is skipped, a value that was pending is taken, then records are decoded
\* up to the end mark or the end of raw
DecodeFrom(st, raw, out) ==
    LET skip  == Min(HeaderLeft[st], Len(raw))
        st1   == IF st \in {"val", "eof"} THEN st
                 ELSE HeaderStates[HeaderLeft[st] - skip + 1]
        body  == SubSeq(raw, skip + 1, Len(raw))
        first == IF st1 = "val" /\ body # <<>> THEN <<body[1]>> ELSE <<>>
        recs  == IF st1 = "val" THEN SubSeq(body, 2, Len(body))
                 ELSE IF st1 = "tag" THEN body ELSE <<>>
        ends  == {k \in 1..((Len(recs) + 1) \div 2) : recs[2 * k - 1] = 0}
        n     == IF ends = {} THEN Len(recs) \div 2
                 ELSE (CHOOSE k \in ends : \A j \in ends : k <= j) - 1
        st2   == IF st1 \notin {"tag", "val"} \/ (st1 = "val" /\ body = <<>>) THEN st1
                 ELSE IF ends # {} THEN "eof"
                 ELSE IF Len(recs) % 2 = 1 THEN "val" ELSE "tag"
    IN  [st |-> st2, out |-> out \o first \o [k \in 1..n |-> recs[2 * k]],
         err |-> "none"]
\* cmpobj.decompress(raw)
decompress(st, raw) ==
    IF st = "eof" THEN [st |-> st, out |-> <<>>, err |-> "EOFError"]
    ELSE DecodeFrom(st, raw, <<>>)

\* _CMPProxy.blocksize = 16 * 1024
CMPBlocksize == 16384
PxPlains == UNION {[1..n -> {7, 9}] : n \in 0..MaxPlain}
\* the underlying files: complete streams, and streams that end early
PxFiles ==
    UNION {{SubSeq(CompressedStream(p), 1, n) : n \in 0..Len(CompressedStream(p))} :
              p \in PxPlains}
PxSizes == 0..3

PxIdle ==
    [pc |-> "idle", file |-> <<>>, fpos |-> 0, cmp |-> "h5", buf |-> <<>>,
     b |-> <<>>, x |-> 0, size |-> 0, broke |-> FALSE, ret |-> <<>>, pos |-> 0,
     calls |-> 0, out |-> <<>>]
\* _BZ2Proxy(fileobj, "r")
PxStart == {[PxIdle EXCEPT !.pc = "ready", !.file = f] : f \in PxFiles}

\* read(size): b = [self.buf]; x = len(self.buf)
PxRead ==
    /\ px.pc = "ready" /\ px.calls < MaxReads
    /\ \E size \in PxSizes :
          px' = [px EXCEPT !.pc = "loop", !.size = size, !.b = px.buf,
                           !.x = Len(px.buf), !.broke = FALSE, !.calls = @ + 1]
    /\ UNCHANGED OtherThanPx

\* one turn of "while x < size": raw = self.fileobj.read(self.blocksize);
\* data = self.cmpobj.decompress(raw); b.append(data); x += len(data);
\* on EOFError: break
PxLoop ==
    /\ px.pc = "loop" /\ px.x < px.size /\ ~px.broke
    /\ LET n   == ReadLen(CMPBlocksize, Len(px.file), px.fpos)
           raw == SubSeq(px.file, px.fpos + 1, px.fpos + n)
           d   == decompress(px.cmp, raw)
       IN  px' = IF d.err = "EOFError"
                 THEN [px EXCEPT !.fpos = @ + n, !.broke = TRUE]
                 ELSE [px EXCEPT !.fpos = @ + n, !.cmp = d.st,
                                 !.b = @ \o d.out, !.x = @ + Len(d.out)]
    /\ UNCHANGED OtherThanPx

\* after the loop: self.buf = b"".join(b); buf = self.buf[:size];
\* self.buf = self.buf[size:]; self.pos += len(buf); return buf
PxReturn ==
    /\ px.pc = "loop" /\ (px.x >= px.size \/ px.broke)
    /\ px' = [px EXCEPT !.pc = "ready", !.ret = Slice(px.b, 0, px.size),
                       !.buf = Slice(px.b, px.size, Len(px.b)),
                       !.pos = @ + Len(Slice(px.b, 0, px.size)),
                       !.out = @ \o Slice(px.b, 0, px.size), !.b = <<>>]
    /\ UNCHANGED OtherThanPx

NextProxy == PxRead \/ PxLoop \/ PxReturn

\* C27: every read(size) on a compression adapter completes, by returning
\* at most size bytes or by failing, whenever the underlying stream is
\* finite, also when it ends before the compressed data is complete.
PxReading == px.pc = "loop"
PxCompleted == px.pc = "ready" /\ Len(px.ret) <= px.size
CexC27 == PxReading ~> PxCompleted
\* what the code does: a read completes when the file holds a complete
\* stream, or as much data as was asked for
PxComplete == \E p \in PxPlains : px.file = CompressedStream(p)
C27CompleteStreams == (PxReading /\ PxComplete) ~> PxCompleted
\* a read that has met the end of a file that ends early takes turn after
\* turn without any change
C27Spins ==
    [][(PxLoop /\ px.fpos = Len(px.file) /\ ~PxComplete) => UNCHANGED px]_vars

(***************************************************************************)
(* _Stream in read mode over _StreamProxy (utils/cpiofile.py): the file    *)
(* below, the 512 bytes peeked for the detection, the raw buffer, the      *)
(* buffer of decompressed bytes, and the position.                         *)
(***************************************************************************)
\* fileobj.read(n) of the file below
FileRead(s, n) ==
    LET k == ReadLen(n, Len(s.file), s.fpos)
    IN  [s |-> [s EXCEPT !.fpos = @ + k],
         ret |-> SubSeq(s.file, s.fpos + 1, s.fpos + k)]

\* a proxy that hands the file's read over and forgets what it peeked
StreamProxyReadForgets(s, size) == FileRead([s EXCEPT !.fresh = FALSE], size)
\* _StreamProxy.read(size): the first call returns the whole peeked buffer
\* and replaces read by the file's read
StreamProxyRead(s, size) ==
    IF s.fresh THEN [s |-> [s EXCEPT !.fresh = FALSE], ret |-> s.peek]
    ELSE FileRead(s, size)

\* _Stream.__read(size): blocks of bufsize from below until size bytes are
\* buffered or a read returns nothing; the first size bytes are returned
RECURSIVE LowFill(_, _, _)
LowFill(s, t, size) ==
    IF Len(t) >= size THEN [s |-> s, t |-> t]
    ELSE LET r == StreamProxyRead(s, s.bufsize)
         IN  IF r.ret = <<>> THEN [s |-> r.s, t |-> t]
             ELSE LowFill(r.s, t \o r.ret, size)
LowRead(s, size) ==
    LET f == LowFill(s, s.buf, size)
    IN  [s |-> [f.s EXCEPT !.buf = Slice(f.t, size, Len(f.t))],
         ret |-> Slice(f.t, 0, size)]

\* _Stream._read(size): for a compressed stream, blocks are decompressed
\* until size bytes are there or __read returns nothing
RECURSIVE InnerFill(_, _, _)
InnerFill(s, t, size) ==
    IF Len(t) >= size THEN [s |-> s, t |-> t]
    ELSE LET r == LowRead(s, s.bufsize)
             d == decompress(r.s.cmp, r.ret)
         IN  IF r.ret = <<>> THEN [s |-> r.s, t |-> t]
             ELSE IF d.err # "none" THEN [s |-> [r.s EXCEPT !.err = d.err], t |-> t]
             ELSE InnerFill([r.s EXCEPT !.cmp = d.st], t \o d.out, size)
InnerRead(s, size) ==
    IF s.comptype = "cpio" THEN LowRead(s, size)
    ELSE LET f == InnerFill(s, s.dbuf, size)
         IN  [s |-> [f.s EXCEPT !.dbuf = Slice(f.t, size, Len(f.t))],
              ret |-> Slice(f.t, 0, size)]

\* the content of a plain file: bytes that begin with no magic
SmBytes(n) == [i \in 1..n |-> 97 + (i % 23)]
\* plain files of 0, 3, 512, 515 and 1100 bytes, and bzip2 streams that
\* fit in the peeked block or do not
SmFiles ==
    {SmBytes(n) : n \in {0, 3, 512, 515, 1100}}
    \cup {CompressedStream(SmBytes(n)) : n \in {0, 2, 300}}
SmBufsizes == {100, 512, 10240}
SmSizes == {0, 1, 511, 512, 513, 600}

SmIdle ==
    [pc |-> "idle", file |-> <<>>, fpos |-> 0, star |-> FALSE, fresh |-> FALSE,
     peek |-> <<>>, comptype |-> "", bufsize |-> 0, buf |-> <<>>, dbuf |-> <<>>,
     cmp |-> "h5", pos |-> 0, ret |-> <<>>, size |-> 0, out |-> <<>>,
     calls |-> 0, err |-> "none"]
\* _Stream(name, "r", comptype, fileobj, bufsize): with comptype "*" the
\* file is wrapped in a _StreamProxy, which reads BLOCKSIZE bytes, and the
\* type is what getcomptype finds in them
StreamInit(file, star, bufsize) ==
    LET k == ReadLen(BLOCKSIZE, Len(file), 0)
    IN  [SmIdle EXCEPT
            !.pc = "ready", !.file = file, !.star = star, !.bufsize = bufsize,
            !.fresh = star, !.fpos = IF star THEN k ELSE 0,
            !.peek = IF star THEN SubSeq(file, 1, k) ELSE <<>>,
            !.comptype = getcomptype(SubSeq(file, 1, k))]
\* opened with "r|*", or with the type of the file given
SmStart ==
    {StreamInit(f, st, b) : f \in SmFiles, st \in BOOLEAN, b \in SmBufsizes}

\* _Stream.read(size): buf = self._read(size); self.pos += len(buf)
SmRead ==
    /\ sm.pc = "ready" /\ sm.calls < MaxReads
    /\ \E size \in SmSizes :
          LET r == InnerRead(sm, size)
          IN  sm' = [r.s EXCEPT !.ret = r.ret, !.size = size,
                                !.pos = @ + Len(r.ret), !.out = @ \o r.ret,
                                !.calls = @ + 1]
    /\ UNCHANGED OtherThanSm

NextStream == SmRead

\* C28: for any sequence of read(n) calls on a read-mode stream adapter the
\* bytes returned, joined, are the first bytes of the (decompressed)
\* content: nothing lost, doubled or out of order, the bytes peeked for the
\* detection first; each call returns the bytes asked for as far as there
\* are any, and the position is the number of bytes returned so far.
SmContent ==
    IF sm.comptype = "cpio" THEN sm.file ELSE DecodeFrom("h5", sm.file, <<>>).out
InitCrc ==
    /\ rk \in RkStart
    /\ kp = KpIdle /\ cw = CwIdle /\ pk = PkIdle /\ det = DetIdle /\ up = UpIdle
    /\ rp = RpIdle
    /\ cr = CrIdle
    /\ cl = ClIdle
    /\ hd = HdIdle
    /\ ex = ExIdle
    /\ rt = RtIdle
    /\ xt = XtIdle
    /\ px = PxIdle
    /\ sm = SmIdle
SpecCrc == InitCrc /\ [][NextCrc]_vars
InitKrnl ==
    /\ kp \in KpStart
    /\ rk = RkIdle /\ cw = CwIdle /\ pk = PkIdle /\ det = DetIdle /\ up = UpIdle
    /\ rp = RpIdle
    /\ cr = CrIdle
    /\ cl = ClIdle
    /\ hd = HdIdle
    /\ ex = ExIdle
    /\ rt = RtIdle
    /\ xt = XtIdle
    /\ px = PxIdle
    /\ sm = SmIdle
SpecKrnl == InitKrnl /\ [][NextKrnl]_vars
InitCw ==
    /\ cw \in CwStart
    /\ rk = RkIdle /\ kp = KpIdle /\ pk = PkIdle /\ det = DetIdle /\ up = UpIdle
    /\ rp = RpIdle
    /\ cr = CrIdle
    /\ cl = ClIdle
    /\ hd = HdIdle
    /\ ex = ExIdle
    /\ rt = RtIdle
    /\ xt = XtIdle
    /\ px = PxIdle
    /\ sm = SmIdle
SpecCw == InitCw /\ [][NextCw]_vars
InitPack ==
    /\ pk \in PkStart
    /\ rk = RkIdle /\ kp = KpIdle /\ cw = CwIdle /\ det = DetIdle /\ up = UpIdle
    /\ rp = RpIdle
    /\ cr = CrIdle
    /\ cl = ClIdle
    /\ hd = HdIdle
    /\ ex = ExIdle
    /\ rt = RtIdle
    /\ xt = XtIdle
    /\ px = PxIdle
    /\ sm = SmIdle
SpecPack == InitPack /\ [][NextPack]_vars
InitDetect ==
    /\ det \in DetStart
    /\ rk = RkIdle /\ kp = KpIdle /\ cw = CwIdle /\ pk = PkIdle /\ up = UpIdle
    /\ rp = RpIdle
    /\ cr = CrIdle
    /\ cl = ClIdle
    /\ hd = HdIdle
    /\ ex = ExIdle
    /\ rt = RtIdle
    /\ xt = XtIdle
    /\ px = PxIdle
    /\ sm = SmIdle
SpecDetect == InitDetect /\ [][NextDetect]_vars
InitUnpackPack ==
    /\ up \in UpStart
    /\ rk = RkIdle /\ kp = KpIdle /\ cw = CwIdle /\ pk = PkIdle /\ det = DetIdle
    /\ rp = RpIdle
    /\ cr = CrIdle
    /\ cl = ClIdle
    /\ hd = HdIdle
    /\ ex = ExIdle
    /\ rt = RtIdle
    /\ xt = XtIdle
    /\ px = PxIdle
    /\ sm = SmIdle
SpecUnpackPack == InitUnpackPack /\ [][NextUnpackPack]_vars
InitRepack ==
    /\ rp \in RpStart
    /\ rk = RkIdle
    /\ kp = KpIdle
    /\ cw = CwIdle
    /\ pk = PkIdle
    /\ det = DetIdle
    /\ up = UpIdle
    /\ cr = CrIdle
    /\ cl = ClIdle
    /\ hd = HdIdle
    /\ ex = ExIdle
    /\ rt = RtIdle
    /\ xt = XtIdle
    /\ px = PxIdle
    /\ sm = SmIdle
SpecRepack == InitRepack /\ [][NextRepack]_vars
InitRead ==
    /\ cr \in CrStart
    /\ rk = RkIdle
    /\ kp = KpIdle
    /\ cw = CwIdle
    /\ pk = PkIdle
    /\ det = DetIdle
    /\ up = UpIdle
    /\ rp = RpIdle
    /\ cl = ClIdle
    /\ hd = HdIdle
    /\ ex = ExIdle
    /\ rt = RtIdle
    /\ xt = XtIdle
    /\ px = PxIdle
    /\ sm = SmIdle
SpecRead == InitRead /\ [][NextRead]_vars
InitClose ==
    /\ cl \in ClStart
    /\ rk = RkIdle
    /\ kp = KpIdle
    /\ cw = CwIdle
    /\ pk = PkIdle
    /\ det = DetIdle
    /\ up = UpIdle
    /\ rp = RpIdle
    /\ cr = CrIdle
    /\ hd = HdIdle
    /\ ex = ExIdle
    /\ rt = RtIdle
    /\ xt = XtIdle
    /\ px = PxIdle
    /\ sm = SmIdle
SpecClose == InitClose /\ [][NextClose]_vars
InitHeader ==
    /\ hd \in HdStart
    /\ rk = RkIdle
    /\ kp = KpIdle
    /\ cw = CwIdle
    /\ pk = PkIdle
    /\ det = DetIdle
    /\ up = UpIdle
    /\ rp = RpIdle
    /\ cr = CrIdle
    /\ cl = ClIdle
    /\ ex = ExIdle
    /\ rt = RtIdle
    /\ xt = XtIdle
    /\ px = PxIdle
    /\ sm = SmIdle
SpecHeader == InitHeader /\ [][NextHeader]_vars
InitExtract ==
    /\ ex \in ExStart
    /\ rk = RkIdle
    /\ kp = KpIdle
    /\ cw = CwIdle
    /\ pk = PkIdle
    /\ det = DetIdle
    /\ up = UpIdle
    /\ rp = RpIdle
    /\ cr = CrIdle
    /\ cl = ClIdle
    /\ hd = HdIdle
    /\ rt = RtIdle
    /\ xt = XtIdle
    /\ px = PxIdle
    /\ sm = SmIdle
SpecExtract == InitExtract /\ [][NextExtract]_vars
InitRoundTrip ==
    /\ rt \in RtStart
    /\ rk = RkIdle
    /\ kp = KpIdle
    /\ cw = CwIdle
    /\ pk = PkIdle
    /\ det = DetIdle
    /\ up = UpIdle
    /\ rp = RpIdle
    /\ cr = CrIdle
    /\ cl = ClIdle
    /\ hd = HdIdle
    /\ ex = ExIdle
    /\ xt = XtIdle
    /\ px = PxIdle
    /\ sm = SmIdle
SpecRoundTrip == InitRoundTrip /\ [][NextRoundTrip]_vars
InitExtractAll ==
    /\ xt \in XtStart
    /\ rk = RkIdle
    /\ kp = KpIdle
    /\ cw = CwIdle
    /\ pk = PkIdle
    /\ det = DetIdle
    /\ up = UpIdle
    /\ rp = RpIdle
    /\ cr = CrIdle
    /\ cl = ClIdle
    /\ hd = HdIdle
    /\ ex = ExIdle
    /\ rt = RtIdle
    /\ px = PxIdle
    /\ sm = SmIdle
SpecExtractAll == InitExtractAll /\ [][NextExtractAll]_vars
InitProxy ==
    /\ px \in PxStart
    /\ rk = RkIdle
    /\ kp = KpIdle
    /\ cw = CwIdle
    /\ pk = PkIdle
    /\ det = DetIdle
    /\ up = UpIdle
    /\ rp = RpIdle
    /\ cr = CrIdle
    /\ cl = ClIdle
    /\ hd = HdIdle
    /\ ex = ExIdle
    /\ rt = RtIdle
    /\ xt = XtIdle
    /\ sm = SmIdle
SpecProxy == InitProxy /\ [][NextProxy]_vars
\* the loop of read is code that runs: it keeps taking turns
SpecProxyLive == SpecProxy /\ WF_vars(NextProxy)
InitStream ==
    /\ sm \in SmStart
    /\ rk = RkIdle
    /\ kp = KpIdle
    /\ cw = CwIdle
    /\ pk = PkIdle
    /\ det = DetIdle
    /\ up = UpIdle
    /\ rp = RpIdle
    /\ cr = CrIdle
    /\ cl = ClIdle
    /\ hd = HdIdle
    /\ ex = ExIdle
    /\ rt = RtIdle
    /\ xt = XtIdle
    /\ px = PxIdle
SpecStream == InitStream /\ [][NextStream]_vars

====
